---------------------------- MODULE Spec2Model ----------------------------
(***************************************************************************)
(* A model of the arithmetic gate builders of StandardComposer             *)
(* (constraint_system/arithmetic.rs), of the unit tests that drive them,   *)
(* of the KZG10 structured reference string (kzg10/srs.rs), of the         *)
(* assembly of the quotient polynomial                                     *)
(* (constraint_system/standard/quotient_poly.rs) and of the prover key of  *)
(* the logic widget (proof_system/widget/logic/proverkey.rs).              *)
(*                                                                         *)
(* Scalars of the field F are the integers modulo `modulus`.  A Variable   *)
(* is a natural number, the index of its entry in the witness table.       *)
(* The Scalar of the quotient and of the widgets is the integers modulo    *)
(* `ScalarOrder`, a prime whose multiplicative group has a subgroup of     *)
(* order 2^TWO_ADICITY.                                                    *)
(* Option<T> is a sequence: None is <<>>, Some(x) is <<x>>.                *)
(***************************************************************************)
EXTENDS Integers, Sequences, FiniteSets, TLC

VARIABLES
    composer,  \* the StandardComposer: columns, store, witness table, n
    call,      \* the last call made on the composer, with its arguments
    ret,       \* what that call returned
    pi_log,    \* every (row, value) a completed call was given as public input
    built_by,  \* for every row, the method whose call built it
    driver,    \* who drives the composer: "caller" or the name of a test
    step,      \* the number of statements of the test's closure executed
    locals,    \* the test closure's local bindings (name -> Variable)
    res,       \* the test's verdict: "none", "ok" or "err"
    rng,       \* the randomness source: the stream and the number drawn
    pp,        \* the PublicParameters setup returned, or None
    result,    \* the result of the last SRS call
    widget,    \* the last call of the logic widget: arguments and value
    args,      \* the arguments of quotient_poly::compute
    pc,        \* the position of compute
    frame,     \* the evaluation vectors compute has computed so far
    t_1,       \* the satisfiability map: per index, the value written
    quotient,  \* the quotient map: per index, the value written
    returned   \* the quotient polynomial compute returned, or None

vars == <<composer, call, ret, pi_log, built_by, driver, step, locals, res,
          rng, pp, result, widget, args, pc, frame, t_1, quotient,
          returned>>

composerVars ==
    <<composer, call, ret, pi_log, built_by, driver, step, locals, res>>
srsVars == <<rng, pp, result>>
widgetVars == <<widget>>
quotientVars == <<args, pc, frame, t_1, quotient, returned>>

-----------------------------------------------------------------------------
(* Bounds of the model *)

\* The order of the scalar field F: a stand-in for the scalar field of the
\* pairing engine, large enough that every value of the tests is below it.
modulus == 353

\* The number of gate rows a caller-driven circuit may reach.
MaxGates == 2

\* The size of the witness table up to which a caller allocates inputs.
MaxVars == 2

-----------------------------------------------------------------------------
(* Option<T> *)

None == <<>>
Some(x) == <<x>>
IsSome(o) == o # <<>>
Unwrap(o) == o[1]

(* The field F *)

Zero == 0
One == 1 % modulus
FromU64(k) == k % modulus
Add(x, y) == (x + y) % modulus
Mul(x, y) == (x * y) % modulus
Neg(x) == (modulus - x) % modulus

\* pi.unwrap_or_default()
UnwrapOrDefault(o) == IF IsSome(o) THEN Unwrap(o) ELSE Zero

-----------------------------------------------------------------------------
(* StandardComposer *)

\* A composer created empty: no rows, the zero variable reserved.
NewComposer ==
    [ n |-> 0,
      w_l |-> <<>>, w_r |-> <<>>, w_o |-> <<>>, w_4 |-> <<>>,
      q_m |-> <<>>, q_l |-> <<>>, q_r |-> <<>>, q_o |-> <<>>,
      q_c |-> <<>>, q_4 |-> <<>>, q_arith |-> <<>>, q_range |-> <<>>,
      q_logic |-> <<>>, q_fixed_group_add |-> <<>>,
      q_variable_group_add |-> <<>>,
      public_inputs_sparse_store |-> [k \in {} |-> 0],
      variables |-> <<0>>,
      variable_map |-> << <<>> >>,
      zero_var |-> 0,
      status |-> "ok" ]

\* The Variables allocated so far; Variable v is bound to variables[v + 1].
Vars(cs) == 0 .. (Len(cs.variables) - 1)
ValueOf(cs, v) == cs.variables[v + 1]

\* A method's outcome: the composer it leaves and the value it returns
\* (None when it panicked).
Outcome(cs, v) == [cs |-> cs, ret |-> IF cs.status = "ok" THEN Some(v) ELSE None]

\* add_input: a fresh variable bound to value, with no occurrence yet.
add_input(cs, value) ==
    Outcome([cs EXCEPT !.variables = Append(@, value),
                       !.variable_map = Append(@, <<>>)],
            Len(cs.variables))

\* zero_var(): the reserved variable.
zero_var(cs) == Outcome(cs, cs.zero_var)

\* perm.add_variables_to_map(a, b, c, d, n): the four wires' occurrences at
\* row n, each recorded against its variable.
AddOccurrence(map, v, col, row) ==
    [map EXCEPT ![v + 1] = Append(@, <<col, row>>)]

add_variables_to_map(map, a, b, c, d, row) ==
    AddOccurrence(
        AddOccurrence(
            AddOccurrence(
                AddOccurrence(map, a, "Left", row),
                b, "Right", row),
            c, "Output", row),
        d, "Fourth", row)

\* BTreeMap::insert(key, value): the map with key bound to value.
MapInsert(map, key, value) ==
    [k \in (DOMAIN map) \cup {key} |-> IF k = key THEN value ELSE map[k]]

\* AdviceWire, defaulting to the newest variable instead of the zero
\* variable.
AdviceWire_Newest(cs, d) ==
    IF IsSome(d) THEN Unwrap(d) ELSE Len(cs.variables) - 1

\* The advice wire: `match d { Some(var) => var, None => self.zero_var }`.
AdviceWire(cs, d) == IF IsSome(d) THEN Unwrap(d) ELSE cs.zero_var

\* PushRow, leaving the q_4 column as it was.
PushRow_NoQ4(cs, a, b, c, d, qm, ql, qr, qo, qc, q4) ==
    [cs EXCEPT !.w_l = Append(@, a),
               !.w_r = Append(@, b),
               !.w_o = Append(@, c),
               !.w_4 = Append(@, d),
               !.q_m = Append(@, qm),
               !.q_l = Append(@, ql),
               !.q_r = Append(@, qr),
               !.q_o = Append(@, qo),
               !.q_c = Append(@, qc),
               !.q_arith = Append(@, One),
               !.q_range = Append(@, Zero),
               !.q_logic = Append(@, Zero),
               !.q_fixed_group_add = Append(@, Zero),
               !.q_variable_group_add = Append(@, Zero)]

\* The pushes of one gate: one entry on every wire and selector column.
PushRow(cs, a, b, c, d, qm, ql, qr, qo, qc, q4) ==
    [cs EXCEPT !.w_l = Append(@, a),
               !.w_r = Append(@, b),
               !.w_o = Append(@, c),
               !.w_4 = Append(@, d),
               !.q_m = Append(@, qm),
               !.q_l = Append(@, ql),
               !.q_r = Append(@, qr),
               !.q_o = Append(@, qo),
               !.q_c = Append(@, qc),
               !.q_4 = Append(@, q4),
               !.q_arith = Append(@, One),
               !.q_range = Append(@, Zero),
               !.q_logic = Append(@, Zero),
               !.q_fixed_group_add = Append(@, Zero),
               !.q_variable_group_add = Append(@, Zero)]

\* InsertPI without the assertion: an earlier value is overwritten and the
\* call goes on.
InsertPI_NoAssert(cs, pi) ==
    IF IsSome(pi)
    THEN [cs EXCEPT
            !.public_inputs_sparse_store = MapInsert(@, cs.n, Unwrap(pi))]
    ELSE cs

\* InsertPI with the public input put under the row after the one being
\* built, as if n had been incremented first.
InsertPI_UnderNextRow(cs, pi) ==
    IF IsSome(pi)
    THEN [cs EXCEPT
            !.public_inputs_sparse_store =
                MapInsert(@, cs.n + 1, Unwrap(pi)),
            !.status = IF (cs.n + 1) \in DOMAIN cs.public_inputs_sparse_store
                       THEN "panicked" ELSE @]
    ELSE cs

\* `if let Some(pi) = pi { assert!(store.insert(self.n, pi).is_none()) }`:
\* insert puts pi under n whatever was there; the assertion then panics
\* when an earlier value was there.
InsertPI(cs, pi) ==
    IF IsSome(pi)
    THEN [cs EXCEPT
            !.public_inputs_sparse_store = MapInsert(@, cs.n, Unwrap(pi)),
            !.status = IF cs.n \in DOMAIN cs.public_inputs_sparse_store
                       THEN "panicked" ELSE @]
    ELSE cs

\* FinishRow with its two statements in the other order: n += 1, then the
\* occurrences recorded at the row n then names.
FinishRow_CountsFirst(cs, a, b, c, d) ==
    IF cs.status = "ok"
    THEN [cs EXCEPT !.variable_map =
                        add_variables_to_map(@, a, b, c, d, cs.n + 1),
                    !.n = @ + 1]
    ELSE cs

\* The end of a gate: the occurrences of its wires, then n += 1.  Not
\* reached when the assertion panicked.
FinishRow(cs, a, b, c, d) ==
    IF cs.status = "ok"
    THEN [cs EXCEPT !.variable_map = add_variables_to_map(@, a, b, c, d, cs.n),
                    !.n = @ + 1]
    ELSE cs

big_add_gate(cs, a, b, c, d, q_l, q_r, q_o, q_4, q_c, pi) ==
    LET dv == AdviceWire(cs, d)
        \* for an add gate, q_m is zero
        pushed == PushRow(cs, a, b, c, dv, Zero, q_l, q_r, q_o, q_c, q_4)
    IN  Outcome(FinishRow(InsertPI(pushed, pi), a, b, c, dv), c)

big_mul_gate(cs, a, b, c, d, q_m, q_o, q_c, q_4, pi) ==
    LET dv == AdviceWire(cs, d)
        \* for a mul gate, q_l and q_r are zero
        pushed == PushRow(cs, a, b, c, dv, q_m, Zero, Zero, q_o, q_c, q_4)
    IN  Outcome(FinishRow(InsertPI(pushed, pi), a, b, c, dv), c)

big_arith_gate(cs, a, b, c, d, q_m, q_l, q_r, q_o, q_c, q_4, pi) ==
    LET dv == AdviceWire(cs, d)
        pushed == PushRow(cs, a, b, c, dv, q_m, q_l, q_r, q_o, q_c, q_4)
    IN  Outcome(FinishRow(InsertPI(pushed, pi), a, b, c, dv), c)

\* add_gate, handing q_c over in the place of q_4 and zero in the place of
\* q_c.
add_gate_SwapsConstant(cs, a, b, c, q_l, q_r, q_o, q_c, pi) ==
    big_add_gate(cs, a, b, c, None, q_l, q_r, q_o, q_c, Zero, pi)

add_gate(cs, a, b, c, q_l, q_r, q_o, q_c, pi) ==
    big_add_gate(cs, a, b, c, None, q_l, q_r, q_o, Zero, q_c, pi)

mul_gate(cs, a, b, c, q_m, q_o, q_c, pi) ==
    big_mul_gate(cs, a, b, c, None, q_m, q_o, q_c, Zero, pi)

\* AdviceTerm, dropping the coefficient it is given.
AdviceTerm_NoCoefficient(cs, q_4_d) ==
    IF IsSome(q_4_d) THEN <<Zero, Unwrap(q_4_d)[2]>> ELSE <<Zero, cs.zero_var>>

\* `match q_4_d { Some((q_4, var)) => (q_4, var), None => (0, zero_var) }`
AdviceTerm(cs, q_4_d) ==
    IF IsSome(q_4_d) THEN Unwrap(q_4_d) ELSE <<Zero, cs.zero_var>>

\* The output value big_add computes.
big_add_eval(cs, q_l, a, q_r, b, q_4, d, q_c, pi) ==
    Add(Add(Add(Add(Mul(q_l, ValueOf(cs, a)),
                    Mul(q_r, ValueOf(cs, b))),
                Mul(q_4, ValueOf(cs, d))),
            q_c),
        UnwrapOrDefault(pi))

\* big_mul_eval, adding its inputs where it should multiply them.
big_mul_eval_Sum(cs, q_m, a, b, q_4, d, q_c, pi) ==
    Add(Add(Add(Mul(q_m, Add(ValueOf(cs, a), ValueOf(cs, b))),
                Mul(q_4, ValueOf(cs, d))),
            q_c),
        UnwrapOrDefault(pi))

\* The output value big_mul computes.
big_mul_eval(cs, q_m, a, b, q_4, d, q_c, pi) ==
    Add(Add(Add(Mul(Mul(q_m, ValueOf(cs, a)), ValueOf(cs, b)),
                Mul(q_4, ValueOf(cs, d))),
            q_c),
        UnwrapOrDefault(pi))

\* big_arith_eval, without the term of the fourth wire.
big_arith_eval_NoAdvice(cs, q_m, a, b, q_l, q_r, q_4, d, q_c, pi) ==
    Add(Add(Add(Add(Mul(Mul(q_m, ValueOf(cs, a)), ValueOf(cs, b)),
                    Mul(q_l, ValueOf(cs, a))),
                Mul(q_r, ValueOf(cs, b))),
            q_c),
        UnwrapOrDefault(pi))

\* The output value big_arith computes.
big_arith_eval(cs, q_m, a, b, q_l, q_r, q_4, d, q_c, pi) ==
    Add(Add(Add(Add(Add(Mul(Mul(q_m, ValueOf(cs, a)), ValueOf(cs, b)),
                        Mul(q_l, ValueOf(cs, a))),
                    Mul(q_r, ValueOf(cs, b))),
                Mul(q_4, ValueOf(cs, d))),
            q_c),
        UnwrapOrDefault(pi))

big_add(cs, q_l_a, q_r_b, q_4_d, q_c, pi) ==
    LET q_4 == AdviceTerm(cs, q_4_d)[1]
        d == AdviceTerm(cs, q_4_d)[2]
        q_l == q_l_a[1]
        a == q_l_a[2]
        q_r == q_r_b[1]
        b == q_r_b[2]
        q_o == Neg(One)
        c_eval == big_add_eval(cs, q_l, a, q_r, b, q_4, d, q_c, pi)
        input == add_input(cs, c_eval)
        c == Unwrap(input.ret)
    IN  big_add_gate(input.cs, a, b, c, Some(d), q_l, q_r, q_o, q_4, q_c, pi)

add(cs, q_l_a, q_r_b, q_c, pi) ==
    big_add(cs, q_l_a, q_r_b, None, q_c, pi)

big_mul(cs, q_m, a, b, q_4_d, q_c, pi) ==
    LET q_o == Neg(One)
        q_4 == AdviceTerm(cs, q_4_d)[1]
        d == AdviceTerm(cs, q_4_d)[2]
        c_eval == big_mul_eval(cs, q_m, a, b, q_4, d, q_c, pi)
        input == add_input(cs, c_eval)
        c == Unwrap(input.ret)
    IN  big_mul_gate(input.cs, a, b, c, Some(d), q_m, q_o, q_c, q_4, pi)

mul(cs, q_m, a, b, q_c, pi) ==
    big_mul(cs, q_m, a, b, None, q_c, pi)

big_arith(cs, q_m, a, b, q_l, q_r, q_4_d, q_c, pi) ==
    LET q_4 == AdviceTerm(cs, q_4_d)[1]
        d == AdviceTerm(cs, q_4_d)[2]
        c_eval == big_arith_eval(cs, q_m, a, b, q_l, q_r, q_4, d, q_c, pi)
        input == add_input(cs, c_eval)
        c == Unwrap(input.ret)
    IN  big_arith_gate(input.cs, a, b, c, Some(d), q_m, q_l, q_r, Neg(One),
                       q_c, q_4, pi)

\* constrain_to_constant(a, constant, pi): a row that forces
\* a - constant + PI = 0.  It returns nothing.
constrain_to_constant(cs, a, constant, pi) ==
    LET gate == add_gate(cs, a, a, a, One, Zero, Zero, Neg(constant), pi)
    IN  [cs |-> gate.cs, ret |-> None]

-----------------------------------------------------------------------------
(* The gate equation *)

\* The public input of a row: the store's entry, zero where it has none.
PublicInput(cs, row) ==
    IF row \in DOMAIN cs.public_inputs_sparse_store
    THEN cs.public_inputs_sparse_store[row]
    ELSE Zero

\* q_m*(a*b) + q_l*a + q_r*b + q_o*c + q_4*d + q_c + PI, on the witness
\* values of the row's wires.
GateEquation(cs, row) ==
    LET a == ValueOf(cs, cs.w_l[row + 1])
        b == ValueOf(cs, cs.w_r[row + 1])
        c == ValueOf(cs, cs.w_o[row + 1])
        d == ValueOf(cs, cs.w_4[row + 1])
    IN  Add(Add(Add(Add(Add(Add(Mul(cs.q_m[row + 1], Mul(a, b)),
                                Mul(cs.q_l[row + 1], a)),
                            Mul(cs.q_r[row + 1], b)),
                        Mul(cs.q_o[row + 1], c)),
                    Mul(cs.q_4[row + 1], d)),
                cs.q_c[row + 1]),
            PublicInput(cs, row))

RowSatisfied(cs, row) == GateEquation(cs, row) = Zero

\* The circuit is satisfied when every row's gate equation is zero.
CircuitSatisfied(cs) == \A row \in 0 .. (cs.n - 1) : RowSatisfied(cs, row)

-----------------------------------------------------------------------------
(* Calls on the composer *)

\* A call: the method and its arguments.  d is an Option<Variable>; the
\* computing wrappers take q_4 and d together, as Option<(q_4, d)>.
Call(op, a, b, c, d, q_m, q_l, q_r, q_o, q_c, q_4, pi, value) ==
    [op |-> op, a |-> a, b |-> b, c |-> c, d |-> d, q_m |-> q_m,
     q_l |-> q_l, q_r |-> q_r, q_o |-> q_o, q_c |-> q_c, q_4 |-> q_4,
     pi |-> pi, value |-> value]

NoCall == Call("new", 0, 0, 0, None, 0, 0, 0, 0, 0, 0, None, 0)

Q4D(k) == IF IsSome(k.d) THEN Some(<<k.q_4, Unwrap(k.d)>>) ELSE None

GatePrimitives == {"big_add_gate", "big_mul_gate", "big_arith_gate"}
GateWrappers == {"add_gate", "mul_gate"}
ComputingWrappers == {"add", "big_add", "mul", "big_mul", "big_arith"}
GateConstructors == GatePrimitives \cup GateWrappers \cup ComputingWrappers
RowBuilders == GateConstructors \cup {"constrain_to_constant"}

\* The method a call names, applied to the composer.
Apply(cs, k) ==
    CASE k.op = "add_input" -> add_input(cs, k.value)
      [] k.op = "zero_var" -> zero_var(cs)
      [] k.op = "add_gate" ->
            add_gate(cs, k.a, k.b, k.c, k.q_l, k.q_r, k.q_o, k.q_c, k.pi)
      [] k.op = "big_add_gate" ->
            big_add_gate(cs, k.a, k.b, k.c, k.d, k.q_l, k.q_r, k.q_o, k.q_4,
                         k.q_c, k.pi)
      [] k.op = "mul_gate" ->
            mul_gate(cs, k.a, k.b, k.c, k.q_m, k.q_o, k.q_c, k.pi)
      [] k.op = "big_mul_gate" ->
            big_mul_gate(cs, k.a, k.b, k.c, k.d, k.q_m, k.q_o, k.q_c, k.q_4,
                         k.pi)
      [] k.op = "big_arith_gate" ->
            big_arith_gate(cs, k.a, k.b, k.c, k.d, k.q_m, k.q_l, k.q_r,
                           k.q_o, k.q_c, k.q_4, k.pi)
      [] k.op = "add" ->
            add(cs, <<k.q_l, k.a>>, <<k.q_r, k.b>>, k.q_c, k.pi)
      [] k.op = "big_add" ->
            big_add(cs, <<k.q_l, k.a>>, <<k.q_r, k.b>>, Q4D(k), k.q_c, k.pi)
      [] k.op = "mul" -> mul(cs, k.q_m, k.a, k.b, k.q_c, k.pi)
      [] k.op = "big_mul" ->
            big_mul(cs, k.q_m, k.a, k.b, Q4D(k), k.q_c, k.pi)
      [] k.op = "big_arith" ->
            big_arith(cs, k.q_m, k.a, k.b, k.q_l, k.q_r, Q4D(k), k.q_c, k.pi)
      [] k.op = "constrain_to_constant" ->
            constrain_to_constant(cs, k.a, k.value, k.pi)

\* One call on the composer: its effect, what it returns, and the record of
\* the public input it was asked to store for the row it builds.
Do(k) ==
    /\ composer.status = "ok"
    /\ LET done == Apply(composer, k)
       IN  composer' = done.cs /\ ret' = done.ret
    /\ call' = k
    /\ pi_log' = IF IsSome(k.pi) /\ composer'.status = "ok"
                 THEN Append(pi_log, <<composer.n, Unwrap(k.pi)>>)
                 ELSE pi_log
    /\ built_by' = IF k.op \in RowBuilders /\ composer'.status = "ok"
                   THEN Append(built_by, k.op)
                   ELSE built_by

-----------------------------------------------------------------------------
(* A caller that builds a circuit call by call *)

\* The most recently allocated variable, and the variable after v in the
\* witness table (wrapping around).
Last(cs) == Len(cs.variables) - 1
Succ(cs, v) == (v + 1) % Len(cs.variables)

\* The values a caller binds its inputs to.
InputValues == {FromU64(3)}

\* The first wire a caller connects and the selector coefficients it sets:
\* either the newest variable with six different coefficients, or the zero
\* variable with coefficients among 0, 1 and negatives.
CallerChoices(cs) ==
    { [a |-> Last(cs),
       q_m |-> FromU64(2), q_l |-> FromU64(3), q_r |-> FromU64(4),
       q_o |-> FromU64(5), q_c |-> FromU64(6), q_4 |-> FromU64(7)],
      [a |-> cs.zero_var,
       q_m |-> One, q_l |-> Zero, q_r |-> One,
       q_o |-> Neg(One), q_c |-> Zero, q_4 |-> Neg(FromU64(2))] }

\* The public inputs a caller gives.
PublicInputChoices == {None, Some(FromU64(5))}

\* The call of method op on wires a, Succ(a), Succ(Succ(a)) and, when
\* with_d, a fourth wire, with the coefficients q and the public input pi.
CallerCall(op, q, with_d, pi) ==
    LET a == q.a
        b == Succ(composer, a)
        c == Succ(composer, b)
        d == IF with_d THEN Some(Succ(composer, c)) ELSE None
    IN  Call(op, a, b, c, d, q.q_m, q.q_l, q.q_r, q.q_o, q.q_c, q.q_4, pi,
             Zero)

CallerTurn ==
    /\ driver = "caller"
    /\ UNCHANGED <<driver, step, locals, res, srsVars, widgetVars,
                   quotientVars>>

GateTurn ==
    /\ CallerTurn
    /\ composer.n < MaxGates

CallAddInput ==
    /\ CallerTurn
    /\ Len(composer.variables) < MaxVars
    /\ \E value \in InputValues :
            Do(Call("add_input", 0, 0, 0, None, 0, 0, 0, 0, 0, 0, None, value))

CallAddGate ==
    /\ GateTurn
    /\ \E q \in CallerChoices(composer), pi \in PublicInputChoices :
            Do(CallerCall("add_gate", q, FALSE, pi))

CallBigAddGate ==
    /\ GateTurn
    /\ \E q \in CallerChoices(composer), with_d \in BOOLEAN,
          pi \in PublicInputChoices :
            Do(CallerCall("big_add_gate", q, with_d, pi))

CallMulGate ==
    /\ GateTurn
    /\ \E q \in CallerChoices(composer), pi \in PublicInputChoices :
            Do(CallerCall("mul_gate", q, FALSE, pi))

CallBigMulGate ==
    /\ GateTurn
    /\ \E q \in CallerChoices(composer), with_d \in BOOLEAN,
          pi \in PublicInputChoices :
            Do(CallerCall("big_mul_gate", q, with_d, pi))

CallBigArithGate ==
    /\ GateTurn
    /\ \E q \in CallerChoices(composer), with_d \in BOOLEAN,
          pi \in PublicInputChoices :
            Do(CallerCall("big_arith_gate", q, with_d, pi))

CallAdd ==
    /\ GateTurn
    /\ \E q \in CallerChoices(composer), pi \in PublicInputChoices :
            Do(CallerCall("add", q, FALSE, pi))

CallBigAdd ==
    /\ GateTurn
    /\ \E q \in CallerChoices(composer), with_d \in BOOLEAN,
          pi \in PublicInputChoices :
            Do(CallerCall("big_add", q, with_d, pi))

CallMul ==
    /\ GateTurn
    /\ \E q \in CallerChoices(composer), pi \in PublicInputChoices :
            Do(CallerCall("mul", q, FALSE, pi))

CallBigMul ==
    /\ GateTurn
    /\ \E q \in CallerChoices(composer), with_d \in BOOLEAN,
          pi \in PublicInputChoices :
            Do(CallerCall("big_mul", q, with_d, pi))

CallBigArith ==
    /\ GateTurn
    /\ \E q \in CallerChoices(composer), with_d \in BOOLEAN,
          pi \in PublicInputChoices :
            Do(CallerCall("big_arith", q, with_d, pi))

-----------------------------------------------------------------------------
(* The unit tests: each closure is a sequence of statements on the composer *)

\* A statement `let out = composer.op(...)`: wires are named by the locals
\* bound to them, scalars are written as the u64 they are converted from.
Stmt(out, op, a, b, d, q_m, q_l, q_r, q_c, q_4, pi, value) ==
    [out |-> out, op |-> op, a |-> a, b |-> b, d |-> d, q_m |-> q_m,
     q_l |-> q_l, q_r |-> q_r, q_c |-> q_c, q_4 |-> q_4, pi |-> pi,
     value |-> value]

LetAddInput(out, value) ==
    Stmt(out, "add_input", "", "", None, 0, 0, 0, 0, 0, None, value)
LetZeroVar(out) ==
    Stmt(out, "zero_var", "", "", None, 0, 0, 0, 0, 0, None, 0)
LetAdd(out, q_l_a, q_r_b, q_c, pi) ==
    Stmt(out, "add", q_l_a[2], q_r_b[2], None, 0, q_l_a[1], q_r_b[1], q_c, 0,
         pi, 0)
LetBigAdd(out, q_l_a, q_r_b, q_4_d, q_c, pi) ==
    Stmt(out, "big_add", q_l_a[2], q_r_b[2],
         IF IsSome(q_4_d) THEN Some(q_4_d[1][2]) ELSE None,
         0, q_l_a[1], q_r_b[1], q_c,
         IF IsSome(q_4_d) THEN q_4_d[1][1] ELSE 0, pi, 0)
LetMul(out, q_m, a, b, q_c, pi) ==
    Stmt(out, "mul", a, b, None, q_m, 0, 0, q_c, 0, pi, 0)
LetBigMul(out, q_m, a, b, q_4_d, q_c, pi) ==
    Stmt(out, "big_mul", a, b,
         IF IsSome(q_4_d) THEN Some(q_4_d[1][2]) ELSE None,
         q_m, 0, 0, q_c, IF IsSome(q_4_d) THEN q_4_d[1][1] ELSE 0, pi, 0)
LetBigArith(out, q_m, a, b, q_l, q_r, q_4_d, q_c, pi) ==
    Stmt(out, "big_arith", a, b,
         IF IsSome(q_4_d) THEN Some(q_4_d[1][2]) ELSE None,
         q_m, q_l, q_r, q_c, IF IsSome(q_4_d) THEN q_4_d[1][1] ELSE 0, pi, 0)
ConstrainToConstant(a, constant, pi) ==
    Stmt("", "constrain_to_constant", a, "", None, 0, 0, 0, 0, 0, pi, constant)

test_public_inputs ==
    << LetAddInput("var_one", 1),
       LetBigAdd("should_be_three", <<1, "var_one">>, <<1, "var_one">>, None,
                 0, Some(1)),
       ConstrainToConstant("should_be_three", 3, None),
       LetBigAdd("should_be_four", <<1, "var_one">>, <<1, "var_one">>, None,
                 0, Some(2)),
       ConstrainToConstant("should_be_four", 4, None) >>

test_correct_add_mul_gate ==
    << LetAddInput("four", 4),
       LetAddInput("five", 5),
       LetAddInput("six", 6),
       LetAddInput("seven", 7),
       LetBigAdd("fourteen", <<1, "four">>, <<1, "five">>,
                 Some(<<1, "five">>), 0, None),
       LetBigAdd("twenty", <<1, "six">>, <<1, "seven">>,
                 Some(<<1, "seven">>), 0, None),
       LetMul("output", 1, "fourteen", "twenty", 0, None),
       ConstrainToConstant("output", 280, None) >>

test_correct_add_gate ==
    << LetZeroVar("zero"),
       LetAddInput("one", 1),
       LetAdd("c", <<1, "one">>, <<0, "zero">>, 2, None),
       ConstrainToConstant("c", 3, None) >>

test_correct_big_add_mul_gate ==
    << LetAddInput("four", 4),
       LetAddInput("five", 5),
       LetAddInput("six", 6),
       LetAddInput("seven", 7),
       LetAddInput("nine", 9),
       LetBigAdd("fourteen", <<1, "four">>, <<1, "five">>,
                 Some(<<1, "five">>), 0, None),
       LetBigAdd("twenty", <<1, "six">>, <<1, "seven">>,
                 Some(<<1, "seven">>), 0, None),
       LetBigMul("output", 1, "fourteen", "twenty", Some(<<8, "nine">>), 0,
                 None),
       ConstrainToConstant("output", 352, None) >>

test_correct_big_arith_gate ==
    << LetAddInput("a", 4),
       LetAddInput("b", 5),
       LetAddInput("d", 9),
       LetBigArith("output", 6, "a", "b", 7, 8, Some(<<10, "d">>), 11, None),
       ConstrainToConstant("output", 289, None) >>

test_incorrect_big_arith_gate ==
    << LetAddInput("a", 4),
       LetAddInput("b", 5),
       LetAddInput("d", 9),
       LetBigArith("output", 6, "a", "b", 7, 8, Some(<<12, "d">>), 11, None),
       ConstrainToConstant("output", 289, None) >>

test_incorrect_add_mul_gate ==
    << LetAddInput("five", 5),
       LetAddInput("six", 6),
       LetAddInput("seven", 7),
       LetBigAdd("five_plus_five", <<1, "five">>, <<1, "five">>, None, 0,
                 None),
       LetBigAdd("six_plus_seven", <<1, "six">>, <<1, "seven">>, None, 0,
                 None),
       LetMul("output", 1, "five_plus_five", "six_plus_seven", 0, None),
       ConstrainToConstant("output", 117, None) >>

\* batch_test!: the tests that are run.
Tests ==
    {"test_public_inputs", "test_correct_add_mul_gate",
     "test_correct_add_gate", "test_correct_big_add_mul_gate",
     "test_correct_big_arith_gate", "test_incorrect_add_mul_gate",
     "test_incorrect_big_arith_gate"}

Closure(test) ==
    CASE test = "test_public_inputs" -> test_public_inputs
      [] test = "test_correct_add_mul_gate" -> test_correct_add_mul_gate
      [] test = "test_correct_add_gate" -> test_correct_add_gate
      [] test = "test_correct_big_add_mul_gate" -> test_correct_big_add_mul_gate
      [] test = "test_correct_big_arith_gate" -> test_correct_big_arith_gate
      [] test = "test_incorrect_add_mul_gate" -> test_incorrect_add_mul_gate
      [] test = "test_incorrect_big_arith_gate" -> test_incorrect_big_arith_gate

\* The verdict each test asserts: res.is_ok() or res.is_err().
Asserted(test) ==
    IF test \in {"test_incorrect_add_mul_gate", "test_incorrect_big_arith_gate"}
    THEN "err" ELSE "ok"

\* A statement's call, its wires resolved through the closure's locals.
Local(name) == IF name \in DOMAIN locals THEN locals[name] ELSE 0

Resolve(st) ==
    Call(st.op, Local(st.a), Local(st.b), 0,
         IF IsSome(st.d) THEN Some(Local(Unwrap(st.d))) ELSE None,
         FromU64(st.q_m), FromU64(st.q_l), FromU64(st.q_r), 0,
         FromU64(st.q_c), FromU64(st.q_4),
         IF IsSome(st.pi) THEN Some(FromU64(Unwrap(st.pi))) ELSE None,
         FromU64(st.value))

\* The next statement of the test's closure.
RunStatement ==
    /\ driver \in Tests
    /\ step < Len(Closure(driver))
    /\ LET st == Closure(driver)[step + 1]
       IN  /\ Do(Resolve(st))
           /\ locals' = IF st.out # "" /\ IsSome(ret')
                        THEN MapInsert(locals, st.out, Unwrap(ret'))
                        ELSE locals
    /\ step' = step + 1
    /\ UNCHANGED <<driver, res, srsVars, widgetVars,
                   quotientVars>>

\* gadget_tester's verdict on the circuit the closure built: a proof of it
\* verifies exactly when the circuit is satisfied.
gadget_tester ==
    /\ driver \in Tests
    /\ step = Len(Closure(driver))
    /\ res = "none"
    /\ res' = IF composer.status = "ok" /\ CircuitSatisfied(composer)
              THEN "ok" ELSE "err"
    /\ UNCHANGED <<composer, call, ret, pi_log, built_by, driver, step,
                   locals, srsVars, widgetVars,
                   quotientVars>>

-----------------------------------------------------------------------------
(* The structured reference string (PublicParameters) *)

\* Result<T, Error>
Ok(x) == <<"Ok", x>>
Err(e) == <<"Err", e>>
IsOk(r) == r[1] = "Ok"

\* A point of G1 or G2, of prime order `modulus`: its group, the form it is
\* held in and its discrete logarithm to a fixed base.
Point(group, form, k) == [group |-> group, form |-> form, k |-> k]

\* The randomness source: a stream of draws and the number taken so far.
\* rand() takes the next one.
NextDraw(r) == r.stream[r.drawn + 1]
Advance(r) == [r EXCEPT !.drawn = @ + 1]

\* E::Fr::rand, E::G1Projective::rand and E::G2Projective::rand
FrRand(r) == NextDraw(r) % modulus
G1Rand(r) == Point("G1", "projective", NextDraw(r) % modulus)
G2Rand(r) == Point("G2", "projective", NextDraw(r) % modulus)

\* point.mul(s.into_repr())
ScalarMul(point, s) == Point(point.group, "projective", Mul(point.k, s))

\* projective -> affine: into() and batch_normalization_into_affine
IntoAffine(point) == Point(point.group, "affine", point.k)
batch_normalization_into_affine(points) ==
    [i \in 1 .. Len(points) |-> IntoAffine(points[i])]

\* util::powers_of(scalar, max_degree): scalar^0 .. scalar^max_degree
RECURSIVE powers_of(_, _)
powers_of(scalar, max_degree) ==
    IF max_degree = 0
    THEN <<One>>
    ELSE LET powers == powers_of(scalar, max_degree - 1)
         IN  Append(powers, Mul(powers[max_degree], scalar))

\* PowersOfG, leaving out the power zero.
PowersOfG_SkipFirst(g, powers_of_beta) ==
    [i \in 1 .. (Len(powers_of_beta) - 1) |->
        ScalarMul(g, powers_of_beta[i + 1])]

\* `powers_of_beta.iter().copied().map(|s| g.mul(s.into_repr())).collect()`
PowersOfG(g, powers_of_beta) ==
    [i \in 1 .. Len(powers_of_beta) |-> ScalarMul(g, powers_of_beta[i])]

OpeningKeyNew(g, h, beta_h) == [g |-> g, h |-> h, beta_h |-> beta_h]

\* setup past its check of max_degree: the draws, the keys and the
\* assert_eq! on the number of powers.
Generate(max_degree, r) ==
    LET beta == FrRand(r)
        r1 == Advance(r)
        powers_of_beta == powers_of(beta, max_degree)
        g == G1Rand(r1)
        r2 == Advance(r1)
        powers_of_g == PowersOfG(g, powers_of_beta)
        normalised_g == batch_normalization_into_affine(powers_of_g)
        h == G2Rand(r2)
        r3 == Advance(r2)
        beta_h == ScalarMul(h, beta)
    IN  IF Len(powers_of_g) # max_degree + 1
        THEN [value |-> <<"Panic", "assert_eq">>, rng |-> r2]
        ELSE [value |->
                Ok([commit_key |-> [powers_of_g |-> normalised_g],
                    opening_key |->
                        OpeningKeyNew(IntoAffine(g), IntoAffine(h),
                                      IntoAffine(beta_h))]),
              rng |-> r3]

\* setup, drawing the secret scalar before it checks max_degree.
setup_DrawsFirst(max_degree, r) ==
    IF max_degree < 1
    THEN [value |-> Err("DegreeIsZero"), rng |-> Advance(r)]
    ELSE Generate(max_degree, r)

\* PublicParameters::setup(max_degree, rng): the value it returns (or the
\* panic of its assert_eq!) and the randomness source it leaves.
setup(max_degree, r) ==
    IF max_degree < 1
    THEN [value |-> Err("DegreeIsZero"), rng |-> r]
    ELSE Generate(max_degree, r)

\* CommitKey::max_degree(): len(powers_of_g) - 1
commit_key_max_degree(commit_key) == Len(commit_key.powers_of_g) - 1

\* PublicParameters::max_degree()
max_degree(params) == commit_key_max_degree(params.commit_key)

\* CommitKey::truncate(truncated_degree): the prefix of truncated_degree + 1
\* powers, or a degree error beyond the maximum degree.
truncate(commit_key, truncated_degree) ==
    IF truncated_degree > commit_key_max_degree(commit_key)
    THEN Err("TruncatedDegreeTooLarge")
    ELSE Ok([powers_of_g |->
                SubSeq(commit_key.powers_of_g, 1, truncated_degree + 1)])

\* trim, returning the whole CommitKey where it should return the
\* truncated one.
trim_WholeKey(params, truncated_degree) ==
    LET truncated_prover_key == truncate(params.commit_key, truncated_degree)
    IN  IF ~IsOk(truncated_prover_key)
        THEN truncated_prover_key
        ELSE Ok(<<params.commit_key, params.opening_key>>)

\* trim, falling back on the whole CommitKey where truncate fails.
trim_IgnoresError(params, truncated_degree) ==
    LET truncated_prover_key == truncate(params.commit_key, truncated_degree)
    IN  IF ~IsOk(truncated_prover_key)
        THEN Ok(<<params.commit_key, params.opening_key>>)
        ELSE Ok(<<truncated_prover_key[2], params.opening_key>>)

\* PublicParameters::trim(&self, truncated_degree)
trim(params, truncated_degree) ==
    LET truncated_prover_key == truncate(params.commit_key, truncated_degree)
    IN  IF ~IsOk(truncated_prover_key)
        THEN truncated_prover_key
        ELSE Ok(<<truncated_prover_key[2], params.opening_key>>)

(* The calls made on the SRS *)

\* The draws of the randomness source.
Draws == {2, 3}

\* The number of draws the source holds: enough for one setup.
StreamLength == 3

\* The largest degree asked of setup; trim is asked one more.
MaxDegree == 3

SRSTurn ==
    /\ driver = "srs"
    /\ UNCHANGED <<composerVars, widgetVars, quotientVars>>

\* `PublicParameters::setup(max_degree, &mut rng)`; the parameters are kept
\* when it returns them.
Setup ==
    /\ SRSTurn
    /\ \E degree \in 0 .. MaxDegree :
          /\ degree < 1 \/ rng.drawn + 3 <= Len(rng.stream)
          /\ LET done == setup(degree, rng)
             IN  /\ rng' = done.rng
                 /\ pp' = IF IsOk(done.value) THEN Some(done.value[2]) ELSE pp
                 /\ result' = [call |-> "setup", arg |-> degree,
                               value |-> done.value, rng_before |-> rng]

\* `pp.trim(truncated_degree)`
Trim ==
    /\ SRSTurn
    /\ IsSome(pp)
    /\ \E degree \in 0 .. (MaxDegree + 1) :
          result' = [call |-> "trim", arg |-> degree,
                     value |-> trim(Unwrap(pp), degree), rng_before |-> rng]
    /\ UNCHANGED <<rng, pp>>

-----------------------------------------------------------------------------
(* Scalar, the field of the quotient polynomial and of the widgets *)

\* The order of Scalar: a stand-in for the order of the scalar field of
\* BLS12-381, a prime p with a large power of two dividing p - 1.
ScalarOrder == 97

\* The largest s with 2^s dividing ScalarOrder - 1, and a generator of the
\* multiplicative group, which is also the shift of every coset.
TWO_ADICITY == 5
GENERATOR == 5

ScalarFrom(k) == k % ScalarOrder
ScalarAdd(x, y) == (x + y) % ScalarOrder
ScalarSub(x, y) == (x + ScalarOrder - y) % ScalarOrder
ScalarMul2(x, y) == (x * y) % ScalarOrder
ScalarNeg(x) == (ScalarOrder - x) % ScalarOrder
square(x) == ScalarMul2(x, x)

RECURSIVE pow(_, _)
pow(x, k) ==
    IF k = 0 THEN 1
    ELSE IF k % 2 = 0 THEN square(pow(x, k \div 2))
    ELSE ScalarMul2(x, pow(x, k - 1))

\* `x.invert()`: None for zero, the inverse otherwise.
invert(x) == IF x = 0 THEN None ELSE Some(pow(x, ScalarOrder - 2))

\* The sum of f[i] over i in lo..hi.
RECURSIVE ScalarSum(_, _, _)
ScalarSum(f, lo, hi) ==
    IF lo > hi THEN 0 ELSE ScalarAdd(f[hi], ScalarSum(f, lo, hi - 1))

-----------------------------------------------------------------------------
(* EvaluationDomain and Polynomial *)

RECURSIVE Log2Ceil(_)
Log2Ceil(k) == IF k <= 1 THEN 0 ELSE 1 + Log2Ceil((k + 1) \div 2)

\* `EvaluationDomain::new(num_coeffs)`: the domain of the next power of
\* two; None when the field has no subgroup of that size.
EvaluationDomainNew(num_coeffs) ==
    LET log_size == Log2Ceil(num_coeffs)
        size == 2 ^ log_size
    IN  IF log_size > TWO_ADICITY
        THEN None
        ELSE Some([size |-> size,
                   group_gen |-> pow(GENERATOR, (ScalarOrder - 1) \div size)])

\* The elements of a domain, element i (from 0) at place i + 1, and the
\* points of its coset.
Elements(domain) ==
    [i \in 1 .. domain.size |-> pow(domain.group_gen, i - 1)]
CosetPoints(domain) ==
    [i \in 1 .. domain.size |->
        ScalarMul2(GENERATOR, pow(domain.group_gen, i - 1))]

\* A Polynomial is the sequence of its coefficients, the constant first.
RECURSIVE evaluate(_, _)
evaluate(poly, x) ==
    IF poly = <<>> THEN 0
    ELSE ScalarAdd(Head(poly), ScalarMul2(x, evaluate(Tail(poly), x)))

\* `domain.coset_fft(poly)`: the evaluations of poly over the coset.
coset_fft(domain, poly) ==
    LET points == CosetPoints(domain)
    IN  [i \in 1 .. domain.size |-> evaluate(poly, points[i])]

\* `domain.fft(poly)`: the evaluations of poly over the domain.
fft(domain, poly) ==
    LET points == Elements(domain)
    IN  [i \in 1 .. domain.size |-> evaluate(poly, points[i])]

\* `domain.ifft(evals)`: the coefficients of the polynomial of degree below
\* the size of the domain that takes the values evals over the domain.
ifft(domain, evals) ==
    LET size_inv == Unwrap(invert(ScalarFrom(domain.size)))
        gen_inv == Unwrap(invert(domain.group_gen))
    IN  [k \in 1 .. domain.size |->
            ScalarMul2(size_inv,
                ScalarSum([j \in 1 .. domain.size |->
                              ScalarMul2(evals[j],
                                         pow(gen_inv, (j - 1) * (k - 1)))],
                          1, domain.size))]

\* `domain.coset_ifft(evals)`: the same from the values over the coset.
coset_ifft(domain, evals) ==
    LET coeffs == ifft(domain, evals)
        shift_inv == Unwrap(invert(GENERATOR))
    IN  [k \in 1 .. domain.size |->
            ScalarMul2(coeffs[k], pow(shift_inv, k - 1))]

\* `domain_4n.compute_vanishing_poly_over_coset(poly_degree)`: the values
\* of X^poly_degree - 1 over the coset of domain_4n.
compute_vanishing_poly_over_coset(domain, poly_degree) ==
    LET points == CosetPoints(domain)
    IN  [i \in 1 .. domain.size |->
            ScalarSub(pow(points[i], poly_degree), 1)]

-----------------------------------------------------------------------------
(* The circuits handed to the quotient assembler *)

\* The base domain has 2^LogDomainSize rows.
LogDomainSize == 1

DomainSize == 2 ^ LogDomainSize

\* The multipliers that tell the labels of the right, output and fourth
\* columns from those of the left column.
K1 == 7
K2 == 13
K3 == 17

\* A circuit is a table of rows, row r at place r + 1: the values on the
\* four wires, the selectors, the public input, and the position its
\* permutation maps each position to.  The rows past the gates are padding.
EmptyRow(r) ==
    [w_l |-> 0, w_r |-> 0, w_o |-> 0, w_4 |-> 0,
     q_m |-> 0, q_l |-> 0, q_r |-> 0, q_o |-> 0, q_c |-> 0, q_4 |-> 0,
     q_arith |-> 0, q_range |-> 0, q_logic |-> 0, pi |-> 0,
     sigma |-> [c \in 1 .. 4 |-> <<c, r>>]]

\* A gate of the arithmetic family on wire values (a, b, c, d).
ArithRow(r, a, b, c, d, q_m, q_l, q_r, q_o, q_c, q_4, pi) ==
    [EmptyRow(r) EXCEPT !.w_l = a, !.w_r = b, !.w_o = c, !.w_4 = d,
                        !.q_m = q_m, !.q_l = q_l, !.q_r = q_r, !.q_o = q_o,
                        !.q_c = q_c, !.q_4 = q_4, !.q_arith = 1, !.pi = pi]

Padded(gates) ==
    [r \in 1 .. DomainSize |->
        IF r <= Len(gates) THEN gates[r] ELSE EmptyRow(r - 1)]

\* 2 + 3 + 7 - 12 = 0, then 12 * 4 - `product` + 2 = 0 with 2 the public
\* input; the output of the first gate is the left wire of the second.
AddThenMul(product) ==
    Padded(<<
        [ArithRow(0, 2, 3, 12, 7, 0, 1, 1, ScalarNeg(1), 0, 1, 0)
            EXCEPT !.sigma[3] = <<1, 1>>],
        [ArithRow(1, 12, 4, product, 0, 1, 0, 0, ScalarNeg(1), 0, 0, 2)
            EXCEPT !.sigma[1] = <<3, 0>>] >>)

\* A row of the logic and range families on wires that are no digits of an
\* AND nor of an accumulator, then the gate 6 + 9 - 15 = 0.
LogicThenAdd ==
    Padded(<<
        [EmptyRow(0) EXCEPT !.w_l = 1, !.w_r = 2, !.w_o = 3, !.w_4 = 1,
                            !.q_c = 1, !.q_logic = 1, !.q_range = 1],
        ArithRow(1, 6, 9, 15, 0, 0, 1, 1, ScalarNeg(1), 0, 0, 0) >>)

Circuits ==
    [satisfied |-> AddThenMul(50),
     unsatisfied |-> AddThenMul(49),
     logic |-> LogicThenAdd]

\* A column of a circuit: field f of every row.
Column(circuit, f) == [r \in 1 .. Len(circuit) |-> circuit[r][f]]

\* The label of position <<c, r>>: the element r of the domain times the
\* multiplier of column c.
ColumnMultiplier(c) ==
    CASE c = 1 -> 1 [] c = 2 -> K1 [] c = 3 -> K2 [] c = 4 -> K3
Label(domain, position) ==
    ScalarMul2(ColumnMultiplier(position[1]),
               pow(domain.group_gen, position[2]))

\* The grand product z over the rows: 1 at row 0, and at row r + 1 the
\* value at row r times the ratio of the products of
\* (wire + beta * label + gamma) under the identity and under sigma.
WireOf(row, c) ==
    CASE c = 1 -> row.w_l [] c = 2 -> row.w_r
      [] c = 3 -> row.w_o [] c = 4 -> row.w_4

RECURSIVE ScalarProduct(_, _, _)
ScalarProduct(f, lo, hi) ==
    IF lo > hi THEN 1 ELSE ScalarMul2(f[hi], ScalarProduct(f, lo, hi - 1))

RowRatio(domain, circuit, r, beta, gamma) ==
    LET row == circuit[r + 1]
        num == ScalarProduct(
                  [c \in 1 .. 4 |->
                      ScalarAdd(ScalarAdd(WireOf(row, c),
                          ScalarMul2(beta, Label(domain, <<c, r>>))), gamma)],
                  1, 4)
        den == ScalarProduct(
                  [c \in 1 .. 4 |->
                      ScalarAdd(ScalarAdd(WireOf(row, c),
                          ScalarMul2(beta, Label(domain, row.sigma[c]))),
                          gamma)],
                  1, 4)
    IN  ScalarMul2(num, Unwrap(invert(den)))

RECURSIVE GrandProduct(_, _, _, _, _)
GrandProduct(domain, circuit, r, beta, gamma) ==
    IF r = 0 THEN 1
    ELSE ScalarMul2(GrandProduct(domain, circuit, r - 1, beta, gamma),
                    RowRatio(domain, circuit, r - 1, beta, gamma))

\* The polynomials the prover interpolates from a circuit: the four
\* witness polynomials, the public-input polynomial and z.
WitnessPolynomials(domain, circuit) ==
    << ifft(domain, Column(circuit, "w_l")),
       ifft(domain, Column(circuit, "w_r")),
       ifft(domain, Column(circuit, "w_o")),
       ifft(domain, Column(circuit, "w_4")) >>

PublicInputsPoly(domain, circuit) == ifft(domain, Column(circuit, "pi"))

ZPoly(domain, circuit, beta, gamma) ==
    ifft(domain,
         [r \in 1 .. domain.size |->
             GrandProduct(domain, circuit, r - 1, beta, gamma)])

\* A selector of the preprocessed circuit: its polynomial and its
\* evaluations over the coset of domain_4n.
Selector(domain, domain_4n, column) ==
    LET poly == ifft(domain, column)
    IN  [polynomial |-> poly, evals |-> coset_fft(domain_4n, poly)]

\* PreProcessedCircuit: the selectors of the widgets, the four sigma
\* polynomials, and the cached values of the vanishing polynomial over the
\* coset of domain_4n.
Preprocess(domain, circuit) ==
    LET domain_4n == Unwrap(EvaluationDomainNew(4 * domain.size))
        sel(f) == Selector(domain, domain_4n, Column(circuit, f))
        sigma(c) ==
            [polynomial |->
                ifft(domain, [r \in 1 .. domain.size |->
                                 Label(domain, circuit[r].sigma[c])])]
    IN  [arithmetic |->
            [q_m |-> sel("q_m"), q_l |-> sel("q_l"), q_r |-> sel("q_r"),
             q_o |-> sel("q_o"), q_c |-> sel("q_c"), q_4 |-> sel("q_4"),
             q_arith |-> sel("q_arith")],
         range |-> [q_range |-> sel("q_range")],
         logic |-> [q_c |-> sel("q_c"), q_logic |-> sel("q_logic")],
         permutation |->
            [left_sigma |-> sigma(1), right_sigma |-> sigma(2),
             out_sigma |-> sigma(3), fourth_sigma |-> sigma(4)],
         v_h_coset_4n |->
            compute_vanishing_poly_over_coset(domain_4n, domain.size)]

-----------------------------------------------------------------------------
(* The gate widgets *)

\* delta(f) = f (f - 1) (f - 2) (f - 3): zero exactly on the digits 0..3.
delta(f) ==
    ScalarMul2(ScalarMul2(ScalarMul2(f, ScalarSub(f, 1)), ScalarSub(f, 2)),
               ScalarSub(f, 3))

\* delta_xor_and(a, b, w, c, q_c): zero when w is the product of the
\* digits a and b and c is their AND (q_c = 1) or their XOR (q_c = -1).
delta_xor_and(a, b, w, c, q_c) ==
    LET F == ScalarMul2(w,
               ScalarAdd(
                 ScalarSub(
                   ScalarAdd(
                     ScalarMul2(w,
                       ScalarAdd(
                         ScalarSub(ScalarMul2(4, w),
                                   ScalarMul2(18, ScalarAdd(a, b))),
                         81)),
                     ScalarMul2(18, ScalarAdd(square(a), square(b)))),
                   ScalarMul2(81, ScalarAdd(a, b))),
                 83))
        E == ScalarSub(ScalarMul2(3, ScalarAdd(ScalarAdd(a, b), c)),
                       ScalarMul2(2, F))
        B == ScalarMul2(q_c,
               ScalarSub(ScalarMul2(9, c), ScalarMul2(3, ScalarAdd(a, b))))
    IN  ScalarAdd(B, E)

\* compute_quotient_i with the five terms summed without the powers of
\* kappa that separate them.
compute_quotient_i_NoSeparation(key, index, logic_separation_challenge, w_l_i, w_l_i_next, w_r_i, w_r_i_next, w_o_i, w_4_i, w_4_i_next) ==
    LET four == ScalarFrom(4)
        q_logic_i == key.q_logic.evals[index + 1]
        q_c_i == key.q_c.evals[index + 1]
        a == ScalarSub(w_l_i_next, ScalarMul2(four, w_l_i))
        c_0 == delta(a)
        b == ScalarSub(w_r_i_next, ScalarMul2(four, w_r_i))
        c_1 == delta(b)
        d == ScalarSub(w_4_i_next, ScalarMul2(four, w_4_i))
        c_2 == delta(d)
        w == w_o_i
        c_3 == ScalarSub(w, ScalarMul2(a, b))
        c_4 == delta_xor_and(a, b, w, d, q_c_i)
    IN  ScalarMul2(
            ScalarMul2(q_logic_i,
                ScalarAdd(ScalarAdd(ScalarAdd(ScalarAdd(c_3, c_0), c_1), c_2),
                          c_4)),
            logic_separation_challenge)

\* logic::ProverKey::compute_quotient_i, with the logic widget's key
\* (q_c and q_logic, each a polynomial and its evaluations).  Indices count
\* from 0.
compute_quotient_i(key, index, logic_separation_challenge, w_l_i, w_l_i_next, w_r_i, w_r_i_next, w_o_i, w_4_i, w_4_i_next) ==
    LET four == ScalarFrom(4)
        q_logic_i == key.q_logic.evals[index + 1]
        q_c_i == key.q_c.evals[index + 1]
        kappa == square(logic_separation_challenge)
        kappa_sq == square(kappa)
        kappa_cu == ScalarMul2(kappa_sq, kappa)
        kappa_qu == ScalarMul2(kappa_cu, kappa)
        a == ScalarSub(w_l_i_next, ScalarMul2(four, w_l_i))
        c_0 == delta(a)
        b == ScalarSub(w_r_i_next, ScalarMul2(four, w_r_i))
        c_1 == ScalarMul2(delta(b), kappa)
        d == ScalarSub(w_4_i_next, ScalarMul2(four, w_4_i))
        c_2 == ScalarMul2(delta(d), kappa_sq)
        w == w_o_i
        c_3 == ScalarMul2(ScalarSub(w, ScalarMul2(a, b)), kappa_cu)
        c_4 == ScalarMul2(delta_xor_and(a, b, w, d, q_c_i), kappa_qu)
    IN  ScalarMul2(
            ScalarMul2(q_logic_i,
                ScalarAdd(ScalarAdd(ScalarAdd(ScalarAdd(c_3, c_0), c_1), c_2),
                          c_4)),
            logic_separation_challenge)

\* `poly * &t`: every coefficient times the scalar t.
ScalePolynomial(poly, t) == [k \in 1 .. Len(poly) |-> ScalarMul2(poly[k], t)]

\* compute_linearisation, with the challenge left out of the scalar t.
compute_linearisation_NoChallenge(key, logic_separation_challenge, a_eval, a_next_eval, b_eval, b_next_eval, c_eval, d_eval, d_next_eval, q_c_eval) ==
    LET four == ScalarFrom(4)
        q_logic_poly == key.q_logic.polynomial
        kappa == square(logic_separation_challenge)
        kappa_sq == square(kappa)
        kappa_cu == ScalarMul2(kappa_sq, kappa)
        kappa_qu == ScalarMul2(kappa_cu, kappa)
        a == ScalarSub(a_next_eval, ScalarMul2(four, a_eval))
        c_0 == delta(a)
        b == ScalarSub(b_next_eval, ScalarMul2(four, b_eval))
        c_1 == ScalarMul2(delta(b), kappa)
        d == ScalarSub(d_next_eval, ScalarMul2(four, d_eval))
        c_2 == ScalarMul2(delta(d), kappa_sq)
        w == c_eval
        c_3 == ScalarMul2(ScalarSub(w, ScalarMul2(a, b)), kappa_cu)
        c_4 == ScalarMul2(delta_xor_and(a, b, w, d, q_c_eval), kappa_qu)
        t == ScalarAdd(ScalarAdd(ScalarAdd(ScalarAdd(c_0, c_1), c_2), c_3),
                       c_4)
    IN  ScalePolynomial(q_logic_poly, t)

\* logic::ProverKey::compute_linearisation
compute_linearisation(key, logic_separation_challenge, a_eval, a_next_eval, b_eval, b_next_eval, c_eval, d_eval, d_next_eval, q_c_eval) ==
    LET four == ScalarFrom(4)
        q_logic_poly == key.q_logic.polynomial
        kappa == square(logic_separation_challenge)
        kappa_sq == square(kappa)
        kappa_cu == ScalarMul2(kappa_sq, kappa)
        kappa_qu == ScalarMul2(kappa_cu, kappa)
        a == ScalarSub(a_next_eval, ScalarMul2(four, a_eval))
        c_0 == delta(a)
        b == ScalarSub(b_next_eval, ScalarMul2(four, b_eval))
        c_1 == ScalarMul2(delta(b), kappa)
        d == ScalarSub(d_next_eval, ScalarMul2(four, d_eval))
        c_2 == ScalarMul2(delta(d), kappa_sq)
        w == c_eval
        c_3 == ScalarMul2(ScalarSub(w, ScalarMul2(a, b)), kappa_cu)
        c_4 == ScalarMul2(delta_xor_and(a, b, w, d, q_c_eval), kappa_qu)
        t == ScalarMul2(
                ScalarAdd(ScalarAdd(ScalarAdd(ScalarAdd(c_0, c_1), c_2), c_3),
                          c_4),
                logic_separation_challenge)
    IN  ScalePolynomial(q_logic_poly, t)

\* ArithmeticWidget::compute_quotient: the arithmetic gate equation at
\* index i, times q_arith there.
ArithmeticWidget_compute_quotient(key, index, wl, wr, wo, w4) ==
    LET at(q) == key[q].evals[index + 1]
    IN  ScalarMul2(at("q_arith"),
            ScalarAdd(
              ScalarAdd(
                ScalarAdd(
                  ScalarAdd(
                    ScalarAdd(
                      ScalarMul2(ScalarMul2(at("q_m"), wl), wr),
                      ScalarMul2(at("q_l"), wl)),
                    ScalarMul2(at("q_r"), wr)),
                  ScalarMul2(at("q_o"), wo)),
                ScalarMul2(at("q_4"), w4)),
              at("q_c")))

\* RangeWidget::compute_quotient: the four wires and the next row's fourth
\* wire are successive base-4 digits of an accumulator, times q_range.
RangeWidget_compute_quotient(key, index, wl, wr, wo, w4, w4_next) ==
    LET four == ScalarFrom(4)
        b_1 == delta(ScalarSub(wo, ScalarMul2(four, w4)))
        b_2 == delta(ScalarSub(wr, ScalarMul2(four, wo)))
        b_3 == delta(ScalarSub(wl, ScalarMul2(four, wr)))
        b_4 == delta(ScalarSub(w4_next, ScalarMul2(four, wl)))
    IN  ScalarMul2(key.q_range.evals[index + 1],
            ScalarAdd(ScalarAdd(ScalarAdd(b_1, b_2), b_3), b_4))

-----------------------------------------------------------------------------
(* grand_product_quotient: the permutation terms over the coset *)

\* The first Lagrange polynomial of the domain at x:
\* (x^n - 1) / (n (x - 1)).
FirstLagrangeAt(domain, x) ==
    ScalarMul2(ScalarSub(pow(x, domain.size), 1),
        Unwrap(invert(ScalarMul2(ScalarFrom(domain.size), ScalarSub(x, 1)))))

\* vec[i], indices counting from 0: None when i is out of bounds.
At(vec, i) == IF i < Len(vec) THEN Some(vec[i + 1]) ELSE None

\* The product over the four wires of (w + beta * label + gamma), the
\* labels given per column.
WireProduct(wires, labels, beta, gamma) ==
    ScalarProduct(
        [c \in 1 .. 4 |->
            ScalarAdd(ScalarAdd(wires[c], ScalarMul2(beta, labels[c])),
                      gamma)],
        1, 4)

\* compute_identity_polynomial: z(X) times the product of
\* (w(X) + beta * k * X + gamma) over the wires, times alpha.
compute_identity_polynomial(domain, alpha, beta, gamma, z_eval_4n, wl_poly, wr_poly, wo_poly, w4_poly) ==
    LET domain_4n == Unwrap(EvaluationDomainNew(4 * domain.size))
        points == CosetPoints(domain_4n)
        polys == <<wl_poly, wr_poly, wo_poly, w4_poly>>
    IN  [i \in 1 .. domain_4n.size |->
            ScalarMul2(
                ScalarMul2(z_eval_4n[i],
                    WireProduct(
                        [c \in 1 .. 4 |-> evaluate(polys[c], points[i])],
                        [c \in 1 .. 4 |->
                            ScalarMul2(ColumnMultiplier(c), points[i])],
                        beta, gamma)),
                alpha)]

\* compute_copy_polynomial: minus z(omega X) times the product of
\* (w(X) + beta * sigma(X) + gamma) over the wires, times alpha.  z at
\* omega X is the entry four places on in z_eval_4n.
compute_copy_polynomial(domain, alpha, beta, gamma, z_eval_4n, wl_poly, wr_poly, wo_poly, w4_poly, left_sigma, right_sigma, out_sigma, fourth_sigma) ==
    LET domain_4n == Unwrap(EvaluationDomainNew(4 * domain.size))
        points == CosetPoints(domain_4n)
        polys == <<wl_poly, wr_poly, wo_poly, w4_poly>>
        sigmas == <<left_sigma, right_sigma, out_sigma, fourth_sigma>>
    IN  [i \in 1 .. domain_4n.size |->
            ScalarNeg(
                ScalarMul2(
                    ScalarMul2(z_eval_4n[i + 4],
                        WireProduct(
                            [c \in 1 .. 4 |-> evaluate(polys[c], points[i])],
                            [c \in 1 .. 4 |->
                                evaluate(sigmas[c], points[i])],
                            beta, gamma)),
                    alpha))]

\* compute_is_one_polynomial: (z(X) - 1) times the first Lagrange
\* polynomial, times the challenge it is given.
compute_is_one_polynomial(domain, z_poly, alpha_sq) ==
    LET domain_4n == Unwrap(EvaluationDomainNew(4 * domain.size))
        points == CosetPoints(domain_4n)
    IN  [i \in 1 .. domain_4n.size |->
            ScalarMul2(
                ScalarMul2(ScalarSub(evaluate(z_poly, points[i]), 1),
                           FirstLagrangeAt(domain, points[i])),
                alpha_sq)]

-----------------------------------------------------------------------------
(* quotient_poly: the quotient polynomial of the standard composer *)

\* The four pushes left out.
ExtendWithFirstFour_Nothing(vec) == vec

\* `vec.push(vec[0]); vec.push(vec[1]); vec.push(vec[2]); vec.push(vec[3])`
ExtendWithFirstFour(vec) ==
    Append(Append(Append(Append(vec, vec[1]), vec[2]), vec[3]), vec[4])

\* Whether one of the options is None.
AnyNone(options) == \E k \in 1 .. Len(options) : options[k] = None

\* The row closure with the public input left out of the sum.
satisfiability_row_NoPublicInput(preprocessed_circuit, f, i) ==
    LET wl == At(f.wl_eval_4n, i)
        wr == At(f.wr_eval_4n, i)
        wo == At(f.wo_eval_4n, i)
        w4 == At(f.w4_eval_4n, i)
        w4_next == At(f.w4_eval_4n, i + 4)
        v_h_i == IF At(f.v_h, i) = None THEN None
                 ELSE invert(Unwrap(At(f.v_h, i)))
    IN  IF AnyNone(<<wl, wr, wo, w4, w4_next, v_h_i>>)
        THEN None
        ELSE LET a == ArithmeticWidget_compute_quotient(
                          preprocessed_circuit.arithmetic, i,
                          Unwrap(wl), Unwrap(wr), Unwrap(wo), Unwrap(w4))
                 b == RangeWidget_compute_quotient(
                          preprocessed_circuit.range, i,
                          Unwrap(wl), Unwrap(wr), Unwrap(wo), Unwrap(w4),
                          Unwrap(w4_next))
             IN  Some(ScalarMul2(ScalarAdd(a, b), Unwrap(v_h_i)))

\* The closure of compute_circuit_satisfiability_equation's map at index
\* i, over the evaluations f: Some of (a + b + pi) * v_h_i, or None when
\* an index is out of bounds or the inverse is unwrapped from nothing.
satisfiability_row(preprocessed_circuit, f, i) ==
    LET wl == At(f.wl_eval_4n, i)
        wr == At(f.wr_eval_4n, i)
        wo == At(f.wo_eval_4n, i)
        w4 == At(f.w4_eval_4n, i)
        w4_next == At(f.w4_eval_4n, i + 4)
        pi == At(f.pi_eval_4n, i)
        v_h_i == IF At(f.v_h, i) = None THEN None
                 ELSE invert(Unwrap(At(f.v_h, i)))
    IN  IF AnyNone(<<wl, wr, wo, w4, w4_next, pi, v_h_i>>)
        THEN None
        ELSE LET a == ArithmeticWidget_compute_quotient(
                          preprocessed_circuit.arithmetic, i,
                          Unwrap(wl), Unwrap(wr), Unwrap(wo), Unwrap(w4))
                 b == RangeWidget_compute_quotient(
                          preprocessed_circuit.range, i,
                          Unwrap(wl), Unwrap(wr), Unwrap(wo), Unwrap(w4),
                          Unwrap(w4_next))
             IN  Some(ScalarMul2(ScalarAdd(ScalarAdd(a, b), Unwrap(pi)),
                                 Unwrap(v_h_i)))

\* The closure with zero put in the place of an inverse that is not there.
quotient_row_UnwrapOrZero(preprocessed_circuit, f, t_1_evals, i) ==
    LET numerator ==
            ScalarAdd(ScalarAdd(f.t_2[i + 1], f.t_3[i + 1]), f.t_4[i + 1])
        denominator == preprocessed_circuit.v_h_coset_4n[i + 1]
        inverse == invert(denominator)
    IN  Some(ScalarAdd(Unwrap(t_1_evals[i + 1]),
                ScalarMul2(numerator,
                    IF inverse = None THEN 0 ELSE Unwrap(inverse))))

\* The closure of compute's map at index i:
\* t_1[i] + (t_2[i] + t_3[i] + t_4[i]) * denominator.invert().unwrap().
quotient_row(preprocessed_circuit, f, t_1_evals, i) ==
    LET numerator ==
            ScalarAdd(ScalarAdd(f.t_2[i + 1], f.t_3[i + 1]), f.t_4[i + 1])
        denominator == preprocessed_circuit.v_h_coset_4n[i + 1]
        inverse == invert(denominator)
    IN  IF inverse = None
        THEN None
        ELSE Some(ScalarAdd(Unwrap(t_1_evals[i + 1]),
                            ScalarMul2(numerator, Unwrap(inverse))))

\* The locals of compute and of compute_circuit_satisfiability_equation
\* before any is computed.
EmptyFrame ==
    [z_eval_4n |-> <<>>, pi_eval_4n |-> <<>>, wl_eval_4n |-> <<>>,
     wr_eval_4n |-> <<>>, wo_eval_4n |-> <<>>, w4_eval_4n |-> <<>>,
     v_h |-> <<>>, t_2 |-> <<>>, t_3 |-> <<>>, t_4 |-> <<>>]

\* compute, up to the call of compute_circuit_satisfiability_equation.
ZTransformed(f, domain_4n, z_poly) ==
    [f EXCEPT !.z_eval_4n =
        ExtendWithFirstFour(coset_fft(domain_4n, z_poly))]

\* compute_circuit_satisfiability_equation, up to its map.
WiresTransformed(f, domain, domain_4n, wl_poly, wr_poly, wo_poly, w4_poly, pi_poly) ==
    [f EXCEPT !.pi_eval_4n = coset_fft(domain_4n, pi_poly),
              !.wl_eval_4n = coset_fft(domain_4n, wl_poly),
              !.wr_eval_4n = coset_fft(domain_4n, wr_poly),
              !.wo_eval_4n = coset_fft(domain_4n, wo_poly),
              !.w4_eval_4n =
                  ExtendWithFirstFour(coset_fft(domain_4n, w4_poly)),
              !.v_h = compute_vanishing_poly_over_coset(domain_4n,
                                                        domain.size)]

\* compute, from t_2 to t_4: the three permutation terms.
PermutationTermsOf(f, domain, preprocessed_circuit, z_poly, w, alpha, beta, gamma) ==
    [f EXCEPT
        !.t_2 = compute_identity_polynomial(domain, alpha, beta, gamma,
                    f.z_eval_4n, w[1], w[2], w[3], w[4]),
        !.t_3 = compute_copy_polynomial(domain, alpha, beta, gamma,
                    f.z_eval_4n, w[1], w[2], w[3], w[4],
                    preprocessed_circuit.permutation.left_sigma.polynomial,
                    preprocessed_circuit.permutation.right_sigma.polynomial,
                    preprocessed_circuit.permutation.out_sigma.polynomial,
                    preprocessed_circuit.permutation.fourth_sigma.polynomial),
        !.t_4 = compute_is_one_polynomial(domain, z_poly, square(alpha))]

\* Every entry of a vector of options, unwrapped; None if one is None.
Collect(options) ==
    IF AnyNone(options) THEN None
    ELSE Some([k \in 1 .. Len(options) |-> Unwrap(options[k])])

\* compute_circuit_satisfiability_equation, its map run in index order.
compute_circuit_satisfiability_equation(domain, preprocessed_circuit, wl_poly, wr_poly, wo_poly, w4_poly, pi_poly) ==
    LET domain_4n == Unwrap(EvaluationDomainNew(4 * domain.size))
        f == WiresTransformed(EmptyFrame, domain, domain_4n, wl_poly,
                              wr_poly, wo_poly, w4_poly, pi_poly)
    IN  Collect([k \in 1 .. domain_4n.size |->
                    satisfiability_row(preprocessed_circuit, f, k - 1)])

\* compute, its map run in index order: Some of the quotient polynomial,
\* or None when it panics.
compute(domain, preprocessed_circuit, z_poly, witness_polynomials, public_inputs_poly, alpha, beta, gamma) ==
    LET w == witness_polynomials
        domain_4n == Unwrap(EvaluationDomainNew(4 * domain.size))
        f0 == ZTransformed(EmptyFrame, domain_4n, z_poly)
        t_1_evals == compute_circuit_satisfiability_equation(domain,
                   preprocessed_circuit, w[1], w[2], w[3], w[4],
                   public_inputs_poly)
    IN  IF t_1_evals = None THEN None
        ELSE
          LET f == PermutationTermsOf(f0, domain, preprocessed_circuit,
                                      z_poly, w, alpha, beta, gamma)
              rows == Collect([k \in 1 .. domain_4n.size |->
                          quotient_row(preprocessed_circuit, f,
                              [j \in 1 .. domain_4n.size |->
                                  Some(Unwrap(t_1_evals)[j])], k - 1)])
          IN  IF rows = None THEN None
              ELSE Some(coset_ifft(domain_4n, Unwrap(rows)))

-----------------------------------------------------------------------------
(* A caller of the logic widget *)

\* No call of the logic widget has been made.
IdleWidget == widget = [call |-> "none"]

\* A caller makes one call of the widget.
LogicTurn ==
    /\ driver = "logic"
    /\ widget.call = "none"
    /\ UNCHANGED <<composerVars, srsVars, quotientVars>>

\* The key of the logic widget of the circuit with a logic row.
LogicKey ==
    Preprocess(Unwrap(EvaluationDomainNew(DomainSize)), Circuits.logic).logic

\* The wire evaluations and the separation challenges a caller hands over.
WireEvaluations == {ScalarFrom(1), ScalarFrom(5), ScalarFrom(7)}
SeparationChallenges == {ScalarFrom(2), ScalarFrom(3)}

\* `key.compute_quotient_i(index, challenge, w_l_i, w_l_i_next, ...)`
ComputeQuotientI ==
    /\ LogicTurn
    /\ \E index \in 0 .. (4 * DomainSize - 1),
          s \in SeparationChallenges,
          w \in [1 .. 7 -> WireEvaluations] :
          widget' = [call |-> "compute_quotient_i", key |-> LogicKey,
                     index |-> index, logic_separation_challenge |-> s,
                     w |-> w,
                     value |-> compute_quotient_i(LogicKey, index, s,
                                  w[1], w[2], w[3], w[4], w[5], w[6], w[7])]

\* `key.compute_linearisation(challenge, a_eval, a_next_eval, ...)`, the
\* value of q_c one of those q_c takes over the coset.
ComputeLinearisation ==
    /\ LogicTurn
    /\ \E s \in SeparationChallenges,
          w \in [1 .. 7 -> WireEvaluations],
          i \in 1 .. (4 * DomainSize) :
          LET q_c_eval == LogicKey.q_c.evals[i]
          IN  widget' = [call |-> "compute_linearisation", key |-> LogicKey,
                         logic_separation_challenge |-> s, w |-> w,
                         q_c_eval |-> q_c_eval,
                         value |-> compute_linearisation(LogicKey, s,
                                      w[1], w[2], w[3], w[4], w[5], w[6],
                                      w[7], q_c_eval)]

-----------------------------------------------------------------------------
(* A prover that assembles the quotient polynomial *)

\* No quotient polynomial is being assembled.
IdleQuotient ==
    /\ args = [circuit |-> "none"]
    /\ pc = "idle"
    /\ frame = EmptyFrame
    /\ t_1 = <<>>
    /\ quotient = <<>>
    /\ returned = None

\* The arguments of compute for a circuit: its domain, its preprocessed
\* circuit, the polynomials interpolated from it, and the challenges.  A
\* defective preprocessed circuit caches a zero among the values of the
\* vanishing polynomial.
ComputeArgs(name, defective) ==
    LET domain == Unwrap(EvaluationDomainNew(DomainSize))
        circuit == Circuits[name]
        preprocessed == Preprocess(domain, circuit)
        challenge == [alpha |-> ScalarFrom(2), beta |-> ScalarFrom(3),
                      gamma |-> ScalarFrom(11)]
    IN  [circuit |-> name,
         defective |-> defective,
         domain |-> domain,
         preprocessed_circuit |->
            IF defective
            THEN [preprocessed EXCEPT !.v_h_coset_4n[3] = 0]
            ELSE preprocessed,
         z_poly |-> ZPoly(domain, circuit, challenge.beta, challenge.gamma),
         witness_polynomials |-> WitnessPolynomials(domain, circuit),
         public_inputs_poly |-> PublicInputsPoly(domain, circuit),
         alpha |-> challenge.alpha,
         beta |-> challenge.beta,
         gamma |-> challenge.gamma]

QuotientTurn ==
    /\ driver = "quotient"
    /\ UNCHANGED <<composerVars, srsVars, widgetVars>>

\* A vector of n options, none of them written.
Unwritten(n) == [k \in 1 .. n |-> None]

\* Whether every entry of a vector of options has been written.
AllWritten(options) == ~AnyNone(options)

\* A row's value written in the first place still free, whatever its index.
WriteRow_InArrivalOrder(options, i, value) ==
    LET free == CHOOSE k \in 1 .. Len(options) :
                    /\ options[k] = None
                    /\ \A j \in 1 .. (k - 1) : options[j] # None
    IN  [options EXCEPT ![free] = value]

\* The collected map: the value of index i is entry i of the result.
WriteRow(options, i, value) == [options EXCEPT ![i + 1] = value]

\* compute, lines 27-32: domain_4n, and z over its coset.
CosetTransformZ ==
    /\ QuotientTurn
    /\ pc = "compute"
    /\ LET domain_4n == EvaluationDomainNew(4 * args.domain.size)
       IN  IF domain_4n = None
           THEN pc' = "panicked" /\ UNCHANGED frame
           ELSE /\ frame' = ZTransformed(frame, Unwrap(domain_4n), args.z_poly)
                /\ pc' = "satisfiability"
    /\ UNCHANGED <<args, t_1, quotient, returned>>

\* compute_circuit_satisfiability_equation, lines 87-99: the witness and
\* public-input polynomials over the coset, and v_h.
CosetTransformWires ==
    /\ QuotientTurn
    /\ pc = "satisfiability"
    /\ LET domain_4n == Unwrap(EvaluationDomainNew(4 * args.domain.size))
           w == args.witness_polynomials
       IN  /\ frame' = WiresTransformed(frame, args.domain, domain_4n,
                           w[1], w[2], w[3], w[4], args.public_inputs_poly)
           /\ t_1' = Unwritten(domain_4n.size)
    /\ pc' = "t_1_map"
    /\ UNCHANGED <<args, quotient, returned>>

\* One index of the parallel map of lines 101-121.
SatisfiabilityRow ==
    /\ QuotientTurn
    /\ pc = "t_1_map"
    /\ \E i \in 0 .. (Len(t_1) - 1) :
          /\ t_1[i + 1] = None
          /\ LET value == satisfiability_row(args.preprocessed_circuit,
                                             frame, i)
             IN  IF value = None
                 THEN pc' = "panicked" /\ UNCHANGED t_1
                 ELSE t_1' = WriteRow(t_1, i, value) /\ UNCHANGED pc
    /\ UNCHANGED <<args, frame, quotient, returned>>

\* compute, lines 44-63, once t_1 is collected: t_2, t_3 and t_4.
PermutationTerms ==
    /\ QuotientTurn
    /\ pc = "t_1_map"
    /\ AllWritten(t_1)
    /\ frame' = PermutationTermsOf(frame, args.domain,
                    args.preprocessed_circuit, args.z_poly,
                    args.witness_polynomials, args.alpha, args.beta,
                    args.gamma)
    /\ quotient' = Unwritten(Len(t_1))
    /\ pc' = "quotient_map"
    /\ UNCHANGED <<args, t_1, returned>>

\* One index of the parallel map of lines 65-72.
QuotientRow ==
    /\ QuotientTurn
    /\ pc = "quotient_map"
    /\ \E i \in 0 .. (Len(quotient) - 1) :
          /\ quotient[i + 1] = None
          /\ LET value == quotient_row(args.preprocessed_circuit, frame,
                                       t_1, i)
             IN  IF value = None
                 THEN pc' = "panicked" /\ UNCHANGED quotient
                 ELSE quotient' = WriteRow(quotient, i, value)
                      /\ UNCHANGED pc
    /\ UNCHANGED <<args, frame, t_1, returned>>

\* compute, line 74, once the quotient is collected.
InverseCosetTransform ==
    /\ QuotientTurn
    /\ pc = "quotient_map"
    /\ AllWritten(quotient)
    /\ LET domain_4n == Unwrap(EvaluationDomainNew(4 * args.domain.size))
       IN  returned' = Some(coset_ifft(domain_4n, Unwrap(Collect(quotient))))
    /\ pc' = "done"
    /\ UNCHANGED <<args, frame, t_1, quotient>>

-----------------------------------------------------------------------------
(* The specification of the composer *)

\* No SRS call has been made.
IdleSRS ==
    /\ rng = [stream |-> <<>>, drawn |-> 0]
    /\ pp = None
    /\ result = [call |-> "none", arg |-> 0, value |-> None, rng_before |-> rng]

\* A fresh composer, driven by a caller or by one of the tests.
Init ==
    /\ composer = NewComposer
    /\ call = NoCall
    /\ ret = None
    /\ pi_log = <<>>
    /\ built_by = <<>>
    /\ driver \in {"caller"} \cup Tests
    /\ step = 0
    /\ locals = [name \in {} |-> 0]
    /\ res = "none"
    /\ IdleSRS
    /\ IdleWidget
    /\ IdleQuotient

Next ==
    \/ CallAddInput
    \/ CallAddGate
    \/ CallBigAddGate
    \/ CallMulGate
    \/ CallBigMulGate
    \/ CallBigArithGate
    \/ CallAdd
    \/ CallBigAdd
    \/ CallMul
    \/ CallBigMul
    \/ CallBigArith
    \/ RunStatement
    \/ gadget_tester

Spec == Init /\ [][Next]_vars

-----------------------------------------------------------------------------
(* Properties of the gate builders *)

\* The eleven selector columns and the four wire columns of a composer.
Columns(cs) ==
    << cs.w_l, cs.w_r, cs.w_o, cs.w_4,
       cs.q_m, cs.q_l, cs.q_r, cs.q_o, cs.q_c, cs.q_4, cs.q_arith,
       cs.q_range, cs.q_logic, cs.q_fixed_group_add,
       cs.q_variable_group_add >>

\* C1: after k gate-construction calls on a fresh composer, each of the
\* four wire columns and each of the eleven selector columns has length
\* exactly k, and the row counter n equals k.
C1_ColumnLengths ==
    composer.status = "ok" =>
        /\ composer.n = Len(built_by)
        /\ \A i \in 1 .. 15 : Len(Columns(composer)[i]) = Len(built_by)

\* Two gates built by a caller, by two different methods.
C1_Witness ==
    /\ driver = "caller"
    /\ Len(built_by) = 2
    /\ built_by[1] # built_by[2]
    /\ composer.n = 2

\* The value the gate equation of a row gives to its output wire when q_o
\* is -1: q_m*a*b + q_l*a + q_r*b + q_4*d + q_c + PI.
OutputOfRow(cs, row) ==
    LET a == ValueOf(cs, cs.w_l[row + 1])
        b == ValueOf(cs, cs.w_r[row + 1])
        d == ValueOf(cs, cs.w_4[row + 1])
    IN  ( cs.q_m[row + 1] * a * b + cs.q_l[row + 1] * a + cs.q_r[row + 1] * b
          + cs.q_4[row + 1] * d + cs.q_c[row + 1] + PublicInput(cs, row) )
        % modulus

\* The value bound to a local of the running test, once it is bound.
Bound(name, value) ==
    name \in DOMAIN locals => ValueOf(composer, locals[name]) = value % modulus

\* C2: every row appended by a computing wrapper (add, big_add, mul,
\* big_mul, big_arith) is satisfied: its q_o is -1, its output wire is
\* bound to q_m*a*b + q_l*a + q_r*b + q_4*d + q_c + PI, and its gate
\* equation is zero; in the tests big_add((1,4),(1,5),Some((1,5))) is 14,
\* mul(1,14,20,0) is 280 and the big_arith of test_correct_big_arith_gate
\* is 289.
C2_WrapperRowsSatisfied ==
    /\ \A row \in 0 .. (composer.n - 1) :
          built_by[row + 1] \in ComputingWrappers =>
            /\ composer.q_o[row + 1] = modulus - 1
            /\ ValueOf(composer, composer.w_o[row + 1])
                 = OutputOfRow(composer, row)
            /\ RowSatisfied(composer, row)
    /\ driver = "test_correct_add_mul_gate" =>
          /\ Bound("fourteen", 14)
          /\ Bound("twenty", 20)
          /\ Bound("output", 280)
    /\ driver = "test_correct_big_arith_gate" => Bound("output", 289)

\* A caller's second row, built by big_arith with a fourth wire and a
\* public input, after another wrapper built the first.
C2_Witness ==
    /\ driver = "caller"
    /\ composer.n = 2
    /\ built_by[1] \in ComputingWrappers
    /\ call.op = "big_arith"
    /\ IsSome(call.d)
    /\ IsSome(call.pi)
    /\ ValueOf(composer, composer.w_l[2]) # 0
    /\ ValueOf(composer, composer.w_o[2]) # 0

\* The positions recorded for variable v in a permutation map.
Occurrences(map, v) == {map[v + 1][i] : i \in 1 .. Len(map[v + 1])}

\* The positions at which a row with wires <<a, b, c, d>> holds variable v.
PlacedAt(wires, row, v) ==
    {<<col, row>> : col \in
        {x \in {"Left", "Right", "Output", "Fourth"} :
            \/ x = "Left" /\ wires[1] = v
            \/ x = "Right" /\ wires[2] = v
            \/ x = "Output" /\ wires[3] = v
            \/ x = "Fourth" /\ wires[4] = v}}

\* A step in which the call k was made on the composer and completed.
Called(k) ==
    /\ call' = k
    /\ composer.status = "ok"
    /\ composer'.status = "ok"
    /\ Len(built_by') = Len(built_by) + 1

\* The effect of a primitive call k made when the row counter is n.
PrimitiveEffect(k) ==
    LET n == composer.n
        d == IF IsSome(k.d) THEN Unwrap(k.d) ELSE composer.zero_var
        wires == <<k.a, k.b, k.c, d>>
    IN  /\ composer'.n = n + 1
        /\ \A i \in 1 .. 15 :
              /\ Len(Columns(composer')[i]) = n + 1
              /\ SubSeq(Columns(composer')[i], 1, n) = Columns(composer)[i]
        /\ <<composer'.w_l[n + 1], composer'.w_r[n + 1],
             composer'.w_o[n + 1], composer'.w_4[n + 1]>> = wires
        /\ composer'.public_inputs_sparse_store =
              IF IsSome(k.pi)
              THEN [r \in DOMAIN composer.public_inputs_sparse_store \cup {n}
                      |-> IF r = n THEN Unwrap(k.pi)
                          ELSE composer.public_inputs_sparse_store[r]]
              ELSE composer.public_inputs_sparse_store
        /\ \A v \in Vars(composer) :
              Occurrences(composer'.variable_map, v) =
                Occurrences(composer.variable_map, v)
                  \cup PlacedAt(wires, n, v)
        /\ ret' = Some(k.c)
        /\ composer'.variables = composer.variables

AddMulBinds(value) ==
    driver = "test_incorrect_add_mul_gate" =>
        /\ Bound("five_plus_five", 10)
        /\ Bound("six_plus_seven", 13)
        /\ Bound("output", value)
        /\ call.op = "constrain_to_constant" =>
              /\ ~RowSatisfied(composer, composer.n - 1)
              /\ \A row \in 0 .. (composer.n - 2) : RowSatisfied(composer, row)
        /\ res # "none" => res = "err"

\* C9 as claimed: in a circuit built as big_add((1,five),(1,five),None),
\* big_add((1,six),(1,seven),None), mul(1, ., ., 0) over inputs 5, 6, 7,
\* the value bound to the mul output is 110, and adding a constraint of
\* that output to the constant 117 makes the circuit unsatisfied.
C9_Original == AddMulBinds(110)

\* C9 as amended: the value bound to the mul output is 130 = (5+5)*(6+7),
\* and adding a constraint of that output to the constant 117 makes the
\* circuit unsatisfied (the constraining row's gate equation is not zero).
C9_IncorrectAddMul == AddMulBinds(130)

\* The test has constrained the output to 117 and got its verdict.
C9_Witness ==
    /\ driver = "test_incorrect_add_mul_gate"
    /\ "output" \in DOMAIN locals
    /\ call.op = "constrain_to_constant"
    /\ call.value = 117
    /\ composer.n = 4
    /\ res = "err"

\* What test_incorrect_big_arith_gate shows when its big_arith binds its
\* output to `value`: the constraint of that output to 289 is not satisfied
\* (where in test_correct_big_arith_gate, with q_4=10, it is).
BigArithBinds(value) ==
    /\ driver = "test_incorrect_big_arith_gate" =>
          /\ Bound("output", value)
          /\ call.op = "constrain_to_constant" =>
                ~RowSatisfied(composer, composer.n - 1)
          /\ res # "none" => res = "err"
    /\ driver = "test_correct_big_arith_gate" =>
          /\ call.op = "constrain_to_constant" => CircuitSatisfied(composer)
          /\ res # "none" => res = "ok"

\* C10 as claimed: big_arith with a=4, b=5, q_m=6, q_l=7, q_r=8, d=9, q_c=11
\* and q_4 changed from 10 to 12 binds its output variable to 299 (instead
\* of 289), so constraining that output to 289 makes the circuit
\* unsatisfied.
C10_Original == BigArithBinds(299)

\* C10 as amended: with q_4 changed from 10 to 12 the output variable is
\* bound to 307 = (4*5)*6 + 4*7 + 5*8 + 9*12 + 11 (instead of 289), so
\* constraining that output to 289 makes the circuit unsatisfied.
C10_IncorrectBigArith == BigArithBinds(307)

\* The test has constrained the output of big_arith to 289 and got its
\* verdict.
C10_Witness ==
    /\ driver = "test_incorrect_big_arith_gate"
    /\ "output" \in DOMAIN locals
    /\ call.op = "constrain_to_constant"
    /\ call.value = 289
    /\ composer.n = 2
    /\ res = "err"

(* The specification of the SRS *)

\* No parameters yet, and a randomness source that has given nothing.
InitSRS ==
    /\ composer = NewComposer
    /\ call = NoCall
    /\ ret = None
    /\ pi_log = <<>>
    /\ built_by = <<>>
    /\ driver = "srs"
    /\ step = 0
    /\ locals = [name \in {} |-> 0]
    /\ res = "none"
    /\ rng \in [stream : [1 .. StreamLength -> Draws], drawn : {0}]
    /\ pp = None
    /\ result = [call |-> "none", arg |-> 0, value |-> None, rng_before |-> rng]
    /\ IdleWidget
    /\ IdleQuotient

NextSRS ==
    \/ Setup
    \/ Trim

SpecSRS == InitSRS /\ [][NextSRS]_vars

-----------------------------------------------------------------------------
(* A composer whose public-input store already holds an entry *)

\* The row for which the store holds a public input before any gate is
\* built: the last row a caller may build.
HeldRow == MaxGates - 1

InitHeld ==
    /\ composer = [NewComposer EXCEPT !.public_inputs_sparse_store =
                        [row \in {HeldRow} |-> FromU64(9)]]
    /\ call = NoCall
    /\ ret = None
    /\ pi_log = << <<HeldRow, FromU64(9)>> >>
    /\ built_by = <<>>
    /\ driver = "caller"
    /\ step = 0
    /\ locals = [name \in {} |-> 0]
    /\ res = "none"
    /\ IdleSRS
    /\ IdleWidget
    /\ IdleQuotient

NextHeld ==
    \/ CallAddInput
    \/ CallAddGate
    \/ CallBigAddGate
    \/ CallMulGate
    \/ CallBigMulGate
    \/ CallBigArithGate
    \/ CallAdd
    \/ CallBigAdd
    \/ CallMul
    \/ CallBigMul
    \/ CallBigArith

SpecHeld == InitHeld /\ [][NextHeld]_vars

\* The store holds what was recorded, one entry for a row.
OneEntryPerRow ==
    composer.status = "ok" =>
        /\ \A i, j \in 1 .. Len(pi_log) : pi_log[i][1] = pi_log[j][1] => i = j
        /\ DOMAIN composer.public_inputs_sparse_store
              = {pi_log[i][1] : i \in 1 .. Len(pi_log)}
        /\ \A i \in 1 .. Len(pi_log) :
              composer.public_inputs_sparse_store[pi_log[i][1]] = pi_log[i][2]

\* A call that is given a public input for a row that has one panics and
\* returns nothing, and no call is made on the composer after that.
DuplicateAborts ==
    /\ ( /\ composer' # composer
         /\ IsSome(call'.pi)
         /\ composer.n \in DOMAIN composer.public_inputs_sparse_store )
       => (composer'.status = "panicked" /\ ret' = None)
    /\ composer.status = "panicked" => composer' = composer

\* C7: the public-input store holds at most one entry per gate row in every
\* reachable state; a gate-construction call that would record a public
\* input for a row that already has one aborts construction (assertion
\* failure) instead of continuing with the earlier value overwritten.
C7_DuplicatePublicInput == []OneEntryPerRow /\ [][DuplicateAborts]_vars

\* A call was given a public input for the row the store held one for, after
\* an earlier call recorded one for its own row, and panicked.
C7_Witness ==
    /\ composer.status = "panicked"
    /\ composer.n = HeldRow
    /\ Len(pi_log) = 2
    /\ IsSome(call.pi)

-----------------------------------------------------------------------------
(* Properties of the SRS *)

\* The secret scalar and the generator that the setup in `result` drew.
DrawnBeta == result.rng_before.stream[result.rng_before.drawn + 1] % modulus
DrawnG == result.rng_before.stream[result.rng_before.drawn + 2] % modulus

\* C3: for every max_degree >= 1, setup(max_degree, rng) succeeds and
\* returns a CommitKey whose powers_of_g has exactly max_degree + 1 entries,
\* entry i being the generator scaled by the secret scalar to the power i;
\* setup(0, rng) fails with DegreeIsZero.
C3_Setup ==
    result.call = "setup" =>
        /\ result.arg >= 1 =>
              /\ IsOk(result.value)
              /\ Len(result.value[2].commit_key.powers_of_g) = result.arg + 1
              /\ \A i \in 0 .. result.arg :
                    result.value[2].commit_key.powers_of_g[i + 1] =
                        Point("G1", "affine",
                              (DrawnG * DrawnBeta ^ i) % modulus)
        /\ result.arg = 0 => result.value = Err("DegreeIsZero")

\* setup has returned parameters of the largest degree.
C3_Witness ==
    /\ result.call = "setup"
    /\ result.arg = MaxDegree
    /\ IsOk(result.value)
    /\ pp = Some(result.value[2])

\* What trim returned for a degree within the maximum degree: the prefix of
\* the CommitKey and the OpeningKey.
TrimmedWithin ==
    (result.call = "trim" /\ result.arg <= max_degree(Unwrap(pp))) =>
        /\ IsOk(result.value)
        /\ Len(result.value[2][1].powers_of_g) = result.arg + 1
        /\ \A i \in 0 .. result.arg :
              result.value[2][1].powers_of_g[i + 1] =
                  Unwrap(pp).commit_key.powers_of_g[i + 1]
        /\ result.value[2][2] = Unwrap(pp).opening_key

\* C4: for every d <= max_degree(), trim(d) returns a CommitKey of length
\* d + 1 whose entry i equals entry i of the untrimmed CommitKey for all
\* 0 <= i <= d, paired with an OpeningKey equal to the untrimmed OpeningKey;
\* the PublicParameters themselves are not modified by trim.
C4_Trim ==
    /\ []TrimmedWithin
    /\ [][result'.call = "trim" => pp' = pp]_vars

\* trim has returned a proper, non-trivial prefix of the CommitKey.
C4_Witness ==
    /\ result.call = "trim"
    /\ result.arg = 1
    /\ max_degree(Unwrap(pp)) = MaxDegree
    /\ IsOk(result.value)

\* C5: trim(truncated_degree) with truncated_degree greater than the SRS's
\* maximum degree returns an error, and neither a CommitKey nor an
\* OpeningKey.
C5_TrimTooLarge ==
    (result.call = "trim" /\ result.arg > max_degree(Unwrap(pp))) =>
        /\ ~IsOk(result.value)
        /\ result.value = Err("TruncatedDegreeTooLarge")

\* trim was asked one more than the maximum degree of the parameters.
C5_Witness ==
    /\ result.call = "trim"
    /\ result.arg = max_degree(Unwrap(pp)) + 1
    /\ ~IsOk(result.value)

\* C6: setup with max_degree < 1 returns DegreeIsZero before drawing
\* anything from the randomness source: the state of the source after the
\* failed call is its state before the call.
C6_NoDrawBeforeCheck ==
    (result.call = "setup" /\ result.arg < 1) =>
        /\ result.value = Err("DegreeIsZero")
        /\ rng = result.rng_before

\* setup(0) has failed on a source from which an earlier setup had drawn.
C6_Witness ==
    /\ result.call = "setup"
    /\ result.arg = 0
    /\ result.value = Err("DegreeIsZero")
    /\ rng.drawn = 3

-----------------------------------------------------------------------------
(* The width-3 wrappers and the primitives they delegate to *)

\* A step in which the wrapper `op` was called on a running composer.
WrapperCalled(op) ==
    /\ call'.op = op
    /\ composer.status = "ok"
    /\ composer' # composer

\* C11: add_gate(a,b,c,q_l,q_r,q_o,q_c,pi) leaves the composer in the same
\* state as big_add_gate(a,b,c,None,q_l,q_r,q_o,0,q_c,pi), and the row it
\* appends has q_m = 0, q_4 = 0 and the zero variable on w_4;
\* mul_gate(a,b,c,q_m,q_o,q_c,pi) leaves it in the same state as
\* big_mul_gate(a,b,c,None,q_m,q_o,q_c,0,pi), and the row it appends has
\* q_l = q_r = 0, q_4 = 0 and the zero variable on w_4.
C11_WidthThreeWrappers ==
    [][ LET k == call'
            row == Len(composer'.w_l)
        IN  /\ WrapperCalled("add_gate") =>
                /\ composer' = big_add_gate(composer, k.a, k.b, k.c, None,
                                  k.q_l, k.q_r, k.q_o, Zero, k.q_c, k.pi).cs
                /\ row = Len(composer.w_l) + 1
                /\ composer'.q_m[row] = Zero
                /\ composer'.q_4[row] = Zero
                /\ composer'.w_4[row] = composer.zero_var
                /\ <<composer'.q_l[row], composer'.q_r[row],
                     composer'.q_o[row], composer'.q_c[row]>> =
                        <<k.q_l, k.q_r, k.q_o, k.q_c>>
            /\ WrapperCalled("mul_gate") =>
                /\ composer' = big_mul_gate(composer, k.a, k.b, k.c, None,
                                  k.q_m, k.q_o, k.q_c, Zero, k.pi).cs
                /\ row = Len(composer.w_l) + 1
                /\ composer'.q_l[row] = Zero
                /\ composer'.q_r[row] = Zero
                /\ composer'.q_4[row] = Zero
                /\ composer'.w_4[row] = composer.zero_var
                /\ <<composer'.q_m[row], composer'.q_o[row],
                     composer'.q_c[row]>> = <<k.q_m, k.q_o, k.q_c>>
      ]_vars

\* A caller's add_gate or mul_gate has built a second row from selectors
\* that are not zero, over a witness table with more than the zero variable.
C11_Witness ==
    /\ driver = "caller"
    /\ call.op \in GateWrappers
    /\ composer.status = "ok"
    /\ composer.n = 2
    /\ call.q_c # Zero
    /\ call.q_o # Zero
    /\ Len(composer.variables) > 1
    /\ composer.w_4[2] = composer.zero_var

-----------------------------------------------------------------------------
(* The permutation derived from the recorded occurrences *)

\* Every position a permutation map records.
Positions(map) ==
    UNION {{map[v][i] : i \in 1 .. Len(map[v])} : v \in 1 .. Len(map)}

\* The permutation of the wire positions: within the occurrences recorded
\* for one variable, in the order they were recorded, each position maps to
\* the next one and the last maps to the first.
Sigma(map) ==
    [p \in Positions(map) |->
        LET v == CHOOSE v \in 1 .. Len(map) :
                    \E i \in 1 .. Len(map[v]) : map[v][i] = p
            i == CHOOSE i \in 1 .. Len(map[v]) : map[v][i] = p
        IN  map[v][(i % Len(map[v])) + 1]]

ColumnNames == <<"Left", "Right", "Output", "Fourth">>

\* The variable on a wire column at a row (rows count from 0).
WireAt(cs, col, row) ==
    CASE col = "Left" -> cs.w_l[row + 1]
      [] col = "Right" -> cs.w_r[row + 1]
      [] col = "Output" -> cs.w_o[row + 1]
      [] col = "Fourth" -> cs.w_4[row + 1]

\* The positions of the finished rows at which variable v is placed.
Placements(cs, v) ==
    {p \in {<<ColumnNames[c], row>> : c \in 1 .. 4, row \in 0 .. (cs.n - 1)} :
        WireAt(cs, p[1], p[2]) = v}

\* Positions in the order the gates wrote them: by row, then by column.
Rank(p) ==
    4 * p[2] + (CHOOSE c \in 1 .. 4 : ColumnNames[c] = p[1])

\* The placement of the same variable written next after p, the first one
\* written when p is the last.
NextPlacement(places, p) ==
    LET later == {q \in places : Rank(q) > Rank(p)}
        from == IF later = {} THEN places ELSE later
    IN  CHOOSE q \in from : \A r \in from : Rank(q) <= Rank(r)

\* C12: after any sequence of gate-construction calls, the permutation
\* derived from the recorded wire occurrences maps each occurrence of a
\* variable to the next occurrence of the same variable, cyclically: a
\* variable placed at exactly 3 distinct (column, row) positions yields a
\* 3-cycle over those positions, and a variable placed at exactly one
\* position is a fixed point.
C12_PermutationCycles ==
    LET sigma == Sigma(composer.variable_map)
    IN  \A v \in Vars(composer) :
            LET places == Placements(composer, v)
            IN  /\ places \subseteq DOMAIN sigma
                /\ \A p \in places :
                      /\ sigma[p] = NextPlacement(places, p)
                      /\ Cardinality(places) = 1 => sigma[p] = p
                      /\ Cardinality(places) = 3 =>
                            /\ sigma[p] # p
                            /\ sigma[sigma[p]] # p
                            /\ sigma[sigma[sigma[p]]] = p
                            /\ {p, sigma[p], sigma[sigma[p]]} = places

\* A caller has built two rows in which one variable is placed at exactly
\* three positions, on both rows, and another at exactly one.
C12_Witness ==
    /\ driver = "caller"
    /\ composer.n = 2
    /\ \E v, u \in Vars(composer) :
          /\ Cardinality(Placements(composer, v)) = 3
          /\ {p[2] : p \in Placements(composer, v)} = {0, 1}
          /\ Cardinality(Placements(composer, u)) = 1

-----------------------------------------------------------------------------
(* The specification of the logic widget *)

\* A composer nobody drives.
IdleComposer ==
    /\ composer = NewComposer
    /\ call = NoCall
    /\ ret = None
    /\ pi_log = <<>>
    /\ built_by = <<>>
    /\ step = 0
    /\ locals = [name \in {} |-> 0]
    /\ res = "none"

InitLogic ==
    /\ IdleComposer
    /\ driver = "logic"
    /\ IdleSRS
    /\ IdleWidget
    /\ IdleQuotient

NextLogic ==
    \/ ComputeQuotientI
    \/ ComputeLinearisation

SpecLogic == InitLogic /\ [][NextLogic]_vars

-----------------------------------------------------------------------------
(* The specification of the quotient assembler *)

\* compute is called for one of the circuits, its preprocessed circuit
\* sound or, for the satisfied circuit, defective.
InitQuotient ==
    /\ IdleComposer
    /\ driver = "quotient"
    /\ IdleSRS
    /\ IdleWidget
    /\ args \in {ComputeArgs(name, FALSE) : name \in DOMAIN Circuits}
                    \cup {ComputeArgs("satisfied", TRUE)}
    /\ pc = "compute"
    /\ frame = EmptyFrame
    /\ t_1 = <<>>
    /\ quotient = <<>>
    /\ returned = None

NextQuotient ==
    \/ CosetTransformZ
    \/ CosetTransformWires
    \/ SatisfiabilityRow
    \/ PermutationTerms
    \/ QuotientRow
    \/ InverseCosetTransform

SpecQuotient == InitQuotient /\ [][NextQuotient]_vars

-----------------------------------------------------------------------------
(* Properties of the quotient assembler *)

\* The number of points of the extended domain.
ExtendedSize == 4 * args.domain.size

\* The evaluations of a polynomial over the coset of the extended domain,
\* and its evaluation at index i, the index taken modulo the size.
OverCoset(poly) ==
    coset_fft(Unwrap(EvaluationDomainNew(ExtendedSize)), poly)
CosetEval(poly, i) == OverCoset(poly)[(i % ExtendedSize) + 1]

\* The contributions of the widgets at index i, from the evaluations of
\* the witness polynomials at i and, for the next row, at i + 4.
ArithmeticTerm(i) ==
    LET w == args.witness_polynomials
    IN  ArithmeticWidget_compute_quotient(
            args.preprocessed_circuit.arithmetic, i,
            CosetEval(w[1], i), CosetEval(w[2], i), CosetEval(w[3], i),
            CosetEval(w[4], i))

RangeTerm(i) ==
    LET w == args.witness_polynomials
    IN  RangeWidget_compute_quotient(
            args.preprocessed_circuit.range, i,
            CosetEval(w[1], i), CosetEval(w[2], i), CosetEval(w[3], i),
            CosetEval(w[4], i), CosetEval(w[4], i + 4))

LogicTerm(i, s) ==
    LET w == args.witness_polynomials
    IN  compute_quotient_i(
            args.preprocessed_circuit.logic, i, s,
            CosetEval(w[1], i), CosetEval(w[1], i + 4),
            CosetEval(w[2], i), CosetEval(w[2], i + 4),
            CosetEval(w[3], i),
            CosetEval(w[4], i), CosetEval(w[4], i + 4))

\* The satisfiability numerator at index i: the contributions of the
\* widgets, the logic widget's under separation challenge s, plus the
\* public input.
SatisfiabilityNumerator(i, s) ==
    ScalarAdd(
        ScalarAdd(ScalarAdd(ArithmeticTerm(i), RangeTerm(i)),
                  LogicTerm(i, s)),
        CosetEval(args.public_inputs_poly, i))

\* x divided by y, y not zero.
Divided(x, y) == ScalarMul2(x, Unwrap(invert(y)))

\* C13: at every extended-domain index i the satisfiability numerator is
\* the sum of the compute_quotient_i contribution of every enabled gate
\* widget (Arithmetic, Range, Logic, Curve-addition) plus the public-input
\* evaluation at i, and this sum is what is divided by the
\* vanishing-polynomial value at i.  The logic widget contributes under
\* some separation challenge.
C13_SatisfiabilityNumerator ==
    \A i \in 0 .. (Len(t_1) - 1) :
        t_1[i + 1] # None =>
            \E s \in SeparationChallenges :
                Unwrap(t_1[i + 1]) =
                    Divided(SatisfiabilityNumerator(i, s), frame.v_h[i + 1])

\* The sum the satisfiability map forms at index i: the arithmetic and
\* range contributions plus the public input.
AssembledNumerator(i) ==
    ScalarAdd(ScalarAdd(ArithmeticTerm(i), RangeTerm(i)),
              CosetEval(args.public_inputs_poly, i))

\* vec is the coset evaluations of poly followed by its own first four
\* entries, so that every index i + 4, i below the extended size, is in
\* bounds and holds the evaluation at (i + 4) mod the extended size.
ExtendedBy4(vec, poly) ==
    /\ Len(vec) = ExtendedSize + 4
    /\ SubSeq(vec, 1, ExtendedSize) = OverCoset(poly)
    /\ \A k \in 0 .. 3 : vec[ExtendedSize + k + 1] = vec[k + 1]
    /\ \A i \in 0 .. (ExtendedSize - 1) :
          /\ At(vec, i + 4) # None
          /\ i >= ExtendedSize - 4 =>
                At(vec, i + 4) = Some(vec[((i + 4) % ExtendedSize) + 1])
          /\ At(vec, i + 4) = Some(CosetEval(poly, i + 4))

\* C14: the coset evaluations of the fourth-wire polynomial and of z are
\* extended from length 4n to length 4n + 4 with entries 4n..4n+3 equal to
\* entries 0..3, so that for every index i in 0..4n the next-row lookup at
\* index i + 4 is in bounds and, for i >= 4n - 4, reads the value at index
\* (i + 4) mod 4n; the rows of the satisfiability map are computed from the
\* value read there.
C14_WrapAround ==
    /\ pc \notin {"idle", "compute"} =>
          ExtendedBy4(frame.z_eval_4n, args.z_poly)
    /\ pc \notin {"idle", "compute", "satisfiability"} =>
          /\ ExtendedBy4(frame.w4_eval_4n, args.witness_polynomials[4])
          /\ \A i \in 0 .. (ExtendedSize - 1) :
                t_1[i + 1] # None =>
                    Unwrap(t_1[i + 1]) =
                        Divided(AssembledNumerator(i), frame.v_h[i + 1])

\* compute has returned for the circuit with a range row, whose
\* contribution at the last index, read from the wrapped entry, is not zero.
C14_Witness ==
    /\ pc = "done"
    /\ args.circuit = "logic"
    /\ t_1[ExtendedSize] # None
    /\ RangeTerm(ExtendedSize - 1) # 0
    /\ CosetEval(args.witness_polynomials[4], ExtendedSize + 3) # 0

\* Some value of the vanishing polynomial that the assembly divides by is
\* zero: one the preprocessed circuit caches, or one computed for v_h.
ZeroDenominator ==
    \/ \E k \in 1 .. Len(args.preprocessed_circuit.v_h_coset_4n) :
          args.preprocessed_circuit.v_h_coset_4n[k] = 0
    \/ \E k \in 1 .. Len(frame.v_h) : frame.v_h[k] = 0

\* Row i of the quotient was computed with the inverse of the denominator
\* of index i: a scalar y with y * denominator = 1.
DividedByTrueInverse(i) ==
    \E y \in 0 .. (ScalarOrder - 1) :
        /\ ScalarMul2(y, args.preprocessed_circuit.v_h_coset_4n[i + 1]) = 1
        /\ Unwrap(quotient[i + 1]) =
              ScalarAdd(Unwrap(t_1[i + 1]),
                  ScalarMul2(ScalarAdd(ScalarAdd(frame.t_2[i + 1],
                                 frame.t_3[i + 1]), frame.t_4[i + 1]), y))

\* C15: if the value of the vanishing polynomial at some index of the
\* extended coset is zero, the assembly of the quotient returns no
\* polynomial (it never gets past the row whose inverse is unwrapped from
\* nothing); a polynomial that is returned has every row computed with a
\* true inverse, never a substituted or a skipped one.
C15_ZeroInverseAborts ==
    /\ (pc # "idle" /\ ZeroDenominator) =>
          /\ returned = None
          /\ pc # "done"
          /\ pc = "quotient_map" =>
                \A k \in 1 .. Len(quotient) :
                    args.preprocessed_circuit.v_h_coset_4n[k] = 0 =>
                        quotient[k] = None
    /\ returned # None =>
          \A i \in 0 .. (ExtendedSize - 1) : DividedByTrueInverse(i)

\* The assembly has panicked on a zero among the cached values of the
\* vanishing polynomial, with every other row of the quotient written.
C15_Witness ==
    /\ pc = "panicked"
    /\ ZeroDenominator
    /\ returned = None
    /\ \E k \in 1 .. Len(quotient) :
          /\ quotient[k] = None
          /\ \A j \in (1 .. Len(quotient)) \ {k} : quotient[j] # None

-----------------------------------------------------------------------------
(* Properties of the logic widget *)

\* The row contribution of the logic widget as the formula states it, for
\* the selector values q_logic and q_c, the separation challenge s and the
\* wires w = <<w_l, w_l_next, w_r, w_r_next, w_o, w_4, w_4_next>>, in
\* integer arithmetic reduced at the end.
LogicRowContribution(q_logic, q_c, s, w) ==
    LET a == (w[2] - 4 * w[1]) % ScalarOrder
        b == (w[4] - 4 * w[3]) % ScalarOrder
        d == (w[7] - 4 * w[6]) % ScalarOrder
        w_o == w[5]
        k == (s * s) % ScalarOrder
    IN  (q_logic
            * (delta(a)
               + delta(b) * k
               + delta(d) * k * k
               + (w_o - a * b) * k * k * k
               + delta_xor_and(a, b, w_o, d, q_c) * k * k * k * k)
            * s) % ScalarOrder

\* C16: for every row index, wire values, selector values and separation
\* challenge s, compute_quotient_i returns
\* q_logic * (delta(a) + delta(b) k + delta(d) k^2 + (w_o - a b) k^3
\*            + delta_xor_and(a, b, w_o, d, q_c) k^4) * s
\* with a = w_l_next - 4 w_l, b = w_r_next - 4 w_r, d = w_4_next - 4 w_4
\* and k = s^2.
C16_LogicRowFormula ==
    widget.call = "compute_quotient_i" =>
        widget.value =
            LogicRowContribution(
                widget.key.q_logic.evals[widget.index + 1],
                widget.key.q_c.evals[widget.index + 1],
                widget.logic_separation_challenge, widget.w)

\* compute_quotient_i has returned a contribution that is not zero, for
\* accumulators a, b, d none of which is a base-4 digit.
C16_Witness ==
    /\ widget.call = "compute_quotient_i"
    /\ widget.value # 0
    /\ widget.key.q_logic.evals[widget.index + 1] # 0
    /\ delta((widget.w[2] - 4 * widget.w[1]) % ScalarOrder) # 0
    /\ delta((widget.w[4] - 4 * widget.w[3]) % ScalarOrder) # 0
    /\ delta((widget.w[7] - 4 * widget.w[6]) % ScalarOrder) # 0

\* The polynomial that compute_linearisation returned, evaluated at the
\* point of index i of the extended coset.
LinearisationAt(i) ==
    evaluate(widget.value,
             CosetPoints(Unwrap(EvaluationDomainNew(4 * DomainSize)))[i + 1])

\* The row contribution compute_quotient_i gives at index i for the
\* challenge and the wire values of the call of compute_linearisation.
RowContributionAt(i) ==
    compute_quotient_i(widget.key, i, widget.logic_separation_challenge,
                       widget.w[1], widget.w[2], widget.w[3], widget.w[4],
                       widget.w[5], widget.w[6], widget.w[7])

\* C17: compute_linearisation mirrors compute_quotient_i: the polynomial it
\* returns is the q_logic selector polynomial scaled by a scalar t such
\* that, at every row where q_c takes the value supplied, the row
\* contribution is q_logic_i * t; the linearisation evaluated where q_logic
\* takes the value q_logic_i is exactly that row contribution.
C17_LinearisationMirrorsQuotient ==
    widget.call = "compute_linearisation" =>
        /\ \E t \in 0 .. (ScalarOrder - 1) :
              /\ widget.value =
                    ScalePolynomial(widget.key.q_logic.polynomial, t)
              /\ \A i \in 0 .. (4 * DomainSize - 1) :
                    widget.key.q_c.evals[i + 1] = widget.q_c_eval =>
                        RowContributionAt(i) =
                            ScalarMul2(widget.key.q_logic.evals[i + 1], t)
        /\ \A i \in 0 .. (4 * DomainSize - 1) :
              widget.key.q_c.evals[i + 1] = widget.q_c_eval =>
                  LinearisationAt(i) = RowContributionAt(i)

\* compute_linearisation has returned a polynomial whose value at a row
\* with the supplied q_c is not zero.
C17_Witness ==
    /\ widget.call = "compute_linearisation"
    /\ \E i \in 0 .. (4 * DomainSize - 1) :
          /\ widget.key.q_c.evals[i + 1] = widget.q_c_eval
          /\ widget.key.q_logic.evals[i + 1] # 0
          /\ LinearisationAt(i) # 0

-----------------------------------------------------------------------------
(* The round trip of the quotient polynomial *)

\* Whether a circuit is satisfied: every row satisfies the equations of the
\* gate families its selectors enable, and every wire holds the value of
\* the wire its permutation maps it to.
GateRowSatisfied(circuit, r) ==
    LET row == circuit[r + 1]
        next == circuit[((r + 1) % Len(circuit)) + 1]
        arith ==
            (row.q_m * row.w_l * row.w_r + row.q_l * row.w_l
             + row.q_r * row.w_r + row.q_o * row.w_o + row.q_4 * row.w_4
             + row.q_c + row.pi) % ScalarOrder
        digits ==
            <<row.w_o - 4 * row.w_4, row.w_r - 4 * row.w_o,
              row.w_l - 4 * row.w_r, next.w_4 - 4 * row.w_l>>
        a == (next.w_l - 4 * row.w_l) % ScalarOrder
        b == (next.w_r - 4 * row.w_r) % ScalarOrder
        d == (next.w_4 - 4 * row.w_4) % ScalarOrder
    IN  /\ row.q_arith # 0 => arith = 0
        /\ row.q_range # 0 =>
              \A k \in 1 .. 4 : delta(digits[k] % ScalarOrder) = 0
        /\ row.q_logic # 0 =>
              /\ delta(a) = 0 /\ delta(b) = 0 /\ delta(d) = 0
              /\ row.w_o = ScalarMul2(a, b)
              /\ delta_xor_and(a, b, row.w_o, d, row.q_c) = 0
        /\ \A c \in 1 .. 4 :
              WireOf(row, c) =
                  WireOf(circuit[row.sigma[c][2] + 1], row.sigma[c][1])

TableSatisfied(circuit) ==
    \A r \in 0 .. (Len(circuit) - 1) : GateRowSatisfied(circuit, r)

\* The vanishing polynomial of the base domain at x, and its first
\* Lagrange polynomial, which is 1 at the first point of the domain.
VanishingAt(x) == ScalarSub(pow(x, args.domain.size), 1)
FirstLagrange(x) ==
    IF x = 1 THEN 1
    ELSE IF VanishingAt(x) = 0 THEN 0
    ELSE FirstLagrangeAt(args.domain, x)

\* The unreduced combined numerator at the point x, from the polynomials
\* of the circuit evaluated at x and, for the next row, at omega * x: the
\* gate terms, the logic widget's under separation challenge s, the public
\* input, and the permutation terms (identity and copy under alpha,
\* boundary under alpha^2).
CombinedNumeratorAt(x, s) ==
    LET next == ScalarMul2(args.domain.group_gen, x)
        w == [c \in 1 .. 4 |-> evaluate(args.witness_polynomials[c], x)]
        w_next ==
            [c \in 1 .. 4 |-> evaluate(args.witness_polynomials[c], next)]
        q(f) == evaluate(args.preprocessed_circuit.arithmetic[f].polynomial,
                         x)
        q_range ==
            evaluate(args.preprocessed_circuit.range.q_range.polynomial, x)
        q_logic ==
            evaluate(args.preprocessed_circuit.logic.q_logic.polynomial, x)
        sigma ==
            LET perm == args.preprocessed_circuit.permutation
            IN  << evaluate(perm.left_sigma.polynomial, x),
                   evaluate(perm.right_sigma.polynomial, x),
                   evaluate(perm.out_sigma.polynomial, x),
                   evaluate(perm.fourth_sigma.polynomial, x) >>
        z == evaluate(args.z_poly, x)
        z_next == evaluate(args.z_poly, next)
        arith ==
            q("q_arith")
              * (q("q_m") * w[1] * w[2] + q("q_l") * w[1] + q("q_r") * w[2]
                 + q("q_o") * w[3] + q("q_4") * w[4] + q("q_c"))
        range ==
            q_range
              * (delta((w[3] - 4 * w[4]) % ScalarOrder)
                 + delta((w[2] - 4 * w[3]) % ScalarOrder)
                 + delta((w[1] - 4 * w[2]) % ScalarOrder)
                 + delta((w_next[4] - 4 * w[1]) % ScalarOrder))
        logic ==
            LogicRowContribution(q_logic, q("q_c"), s,
                <<w[1], w_next[1], w[2], w_next[2], w[3], w[4], w_next[4]>>)
        identity ==
            args.alpha * z
              * WireProduct(w, [c \in 1 .. 4 |->
                                   ScalarMul2(ColumnMultiplier(c), x)],
                            args.beta, args.gamma)
        copy ==
            args.alpha * z_next
              * WireProduct(w, sigma, args.beta, args.gamma)
        boundary == args.alpha * args.alpha * (z - 1) * FirstLagrange(x)
    IN  (arith + range + logic + evaluate(args.public_inputs_poly, x)
           + identity - copy + boundary) % ScalarOrder

\* The polynomial returned, multiplied back by the vanishing polynomial,
\* at the point x.
ReconstructionAt(x) ==
    ScalarMul2(evaluate(Unwrap(returned), x), VanishingAt(x))

\* The points of the rows of the circuit: the elements of the base domain.
RowPoints == {Elements(args.domain)[r] : r \in 1 .. args.domain.size}

\* C18: for a satisfied circuit the quotient polynomial t multiplied back
\* by the vanishing polynomial reproduces the unreduced combined numerator
\* (gate terms + public input + permutation terms) exactly at every row,
\* and at every other point of the field; for an unsatisfied circuit there
\* is a row where the reconstruction and the numerator differ.
C18_RoundTrip ==
    pc = "done" =>
        \A s \in SeparationChallenges :
            IF TableSatisfied(Circuits[args.circuit])
            THEN /\ \A x \in RowPoints :
                       ReconstructionAt(x) = CombinedNumeratorAt(x, s)
                 /\ \A x \in 0 .. (ScalarOrder - 1) :
                       ReconstructionAt(x) = CombinedNumeratorAt(x, s)
            ELSE \E x \in RowPoints :
                    ReconstructionAt(x) # CombinedNumeratorAt(x, s)

\* compute has returned a quotient polynomial that is not zero for the
\* satisfied circuit.
C18_Witness ==
    /\ pc = "done"
    /\ TableSatisfied(Circuits[args.circuit])
    /\ \E k \in 1 .. Len(Unwrap(returned)) : Unwrap(returned)[k] # 0
    /\ \E x \in 0 .. (ScalarOrder - 1) : ReconstructionAt(x) # 0

-----------------------------------------------------------------------------
(* The order of the steps of the assembly *)

\* All the coset transforms the satisfiability map reads are complete, and
\* all those the quotient map reads.
WiresOverCoset ==
    /\ Len(frame.pi_eval_4n) = ExtendedSize
    /\ Len(frame.wl_eval_4n) = ExtendedSize
    /\ Len(frame.wr_eval_4n) = ExtendedSize
    /\ Len(frame.wo_eval_4n) = ExtendedSize
    /\ Len(frame.w4_eval_4n) = ExtendedSize + 4
    /\ Len(frame.v_h) = ExtendedSize
ZOverCoset ==
    /\ Len(frame.z_eval_4n) = ExtendedSize + 4
    /\ Len(frame.t_2) = ExtendedSize
    /\ Len(frame.t_3) = ExtendedSize
    /\ Len(frame.t_4) = ExtendedSize

\* What compute returns when its maps run in the order of the indices.
SequentialResult ==
    compute(args.domain, args.preprocessed_circuit, args.z_poly,
            args.witness_polynomials, args.public_inputs_poly,
            args.alpha, args.beta, args.gamma)

\* C19: the per-row combination is a map whose workers read only the
\* completed coset evaluations and write only their own index: whatever
\* the order in which the rows are written, every entry written is the
\* row of its own index and the polynomial returned is the sequential
\* result; no row is written before all coset transforms have completed,
\* and the inverse coset transform runs only after every row is written.
C19_ParallelMap ==
    /\ \A k \in 1 .. Len(t_1) :
          t_1[k] # None =>
              /\ WiresOverCoset
              /\ t_1[k] = satisfiability_row(args.preprocessed_circuit,
                                             frame, k - 1)
    /\ \A k \in 1 .. Len(quotient) :
          quotient[k] # None =>
              /\ WiresOverCoset /\ ZOverCoset
              /\ Len(t_1) = ExtendedSize /\ AllWritten(t_1)
              /\ quotient[k] = quotient_row(args.preprocessed_circuit,
                                            frame, t_1, k - 1)
    /\ returned # None =>
          /\ Len(quotient) = ExtendedSize /\ AllWritten(quotient)
          /\ returned = SequentialResult

\* The rows of the quotient are being written out of the order of their
\* indices: the last row is written and the first is not.
C19_Witness ==
    /\ pc = "quotient_map"
    /\ quotient[Len(quotient)] # None
    /\ quotient[1] = None
    /\ AllWritten(t_1)

-----------------------------------------------------------------------------
(* The two divided numerators of the quotient *)

\* The permutation terms at index i of the extended coset: the identity
\* and the copy term under the challenge given for them, the boundary term
\* under the challenge given for it.
PermutationNumerator(i, challenge, boundary_challenge) ==
    LET w == args.witness_polynomials
        sigma == args.preprocessed_circuit.permutation
        z_eval_4n == ExtendWithFirstFour(OverCoset(args.z_poly))
        identity == compute_identity_polynomial(args.domain, challenge,
                        args.beta, args.gamma, z_eval_4n,
                        w[1], w[2], w[3], w[4])
        copy == compute_copy_polynomial(args.domain, challenge,
                        args.beta, args.gamma, z_eval_4n,
                        w[1], w[2], w[3], w[4],
                        sigma.left_sigma.polynomial,
                        sigma.right_sigma.polynomial,
                        sigma.out_sigma.polynomial,
                        sigma.fourth_sigma.polynomial)
        boundary == compute_is_one_polynomial(args.domain, args.z_poly,
                        boundary_challenge)
    IN  ScalarAdd(ScalarAdd(identity[i + 1], copy[i + 1]), boundary[i + 1])

\* The value of the vanishing polynomial at index i of the extended coset.
VanishingOverCoset(i) ==
    compute_vanishing_poly_over_coset(
        Unwrap(EvaluationDomainNew(ExtendedSize)), args.domain.size)[i + 1]

\* C20: at every extended-domain index i the quotient evaluation equals
\* (satisfiability numerator at i) / v_h(i) + (identity term + copy term +
\* boundary term at i) / v_h(i), the boundary term computed with alpha
\* squared and the identity and copy terms with alpha, and both divisions
\* by the same value of the vanishing polynomial for index i.  The
\* satisfiability numerator holds the logic widget's contribution under
\* some separation challenge.
C20_QuotientEvaluation ==
    \A i \in 0 .. (Len(quotient) - 1) :
        quotient[i + 1] # None =>
            /\ frame.v_h[i + 1] = VanishingOverCoset(i)
            /\ args.preprocessed_circuit.v_h_coset_4n[i + 1] =
                  VanishingOverCoset(i)
            /\ \E s \in SeparationChallenges :
                  Unwrap(quotient[i + 1]) =
                      ScalarAdd(
                          Divided(SatisfiabilityNumerator(i, s),
                                  VanishingOverCoset(i)),
                          Divided(PermutationNumerator(i, args.alpha,
                                      square(args.alpha)),
                                  VanishingOverCoset(i)))

-----------------------------------------------------------------------------
(* The keys of the public-input store *)

\* Every key of the store is the index of a row that has been built, and
\* its value is the public input given to the call that built that row; the
\* duplicate-public-input assertion has not fired.
KeysAreBuiltRows ==
    /\ composer.status = "ok"
    /\ \A key \in DOMAIN composer.public_inputs_sparse_store :
          /\ key < composer.n
          /\ key < Len(built_by)
          /\ \E i \in 1 .. Len(pi_log) :
                pi_log[i] = <<key, composer.public_inputs_sparse_store[key]>>

\* A call that is given a public input finds no entry under the current n,
\* inserts it there and nowhere else, builds row n and increments n; a call
\* that is given none leaves the store as it was.
InsertsUnderCurrentRow ==
    composer' # composer =>
        LET store == composer.public_inputs_sparse_store
            after == composer'.public_inputs_sparse_store
        IN  IF IsSome(call'.pi)
            THEN /\ composer.n \notin DOMAIN store
                 /\ DOMAIN after = DOMAIN store \cup {composer.n}
                 /\ after[composer.n] = Unwrap(call'.pi)
                 /\ \A key \in DOMAIN store : after[key] = store[key]
                 /\ composer'.n = composer.n + 1
                 /\ Len(built_by') = composer.n + 1
                 /\ composer'.status = "ok"
            ELSE after = store

\* C21: in every composer state reached from an empty public-input store
\* through the arithmetic gate builders, every key of the store is a row
\* index strictly less than n and was inserted by the call that created
\* that row; each call inserts only under the current n and then increments
\* n, so the duplicate-public-input assertion never fires.
C21_StoreKeysBelowN == []KeysAreBuiltRows /\ [][InsertsUnderCurrentRow]_vars

\* Every row a caller may build has been built with a public input, and the
\* store holds one entry for each.
C21_Witness ==
    /\ composer.status = "ok"
    /\ composer.n = MaxGates
    /\ DOMAIN composer.public_inputs_sparse_store = 0 .. (MaxGates - 1)
    /\ Len(pi_log) = MaxGates

=============================================================================
